---- MODULE Spec2Model ----
(***************************************************************************)
(* Elk Peak dashboard back end: the Supabase edge functions (request       *)
(* gateway), the relational store they operate on, and the dashboard's     *)
(* client service (api-secure.js / api.js).                                *)
(*                                                                         *)
(* Every edge function is modelled as a pure operator from (request,       *)
(* store, rate-limit map, clock) to (response, store, rate-limit map),     *)
(* written in the order of the handler's code; one action per handler      *)
(* applies it.                                                             *)
(***************************************************************************)
EXTENDS Integers, Sequences, FiniteSets, TLC

VARIABLES
  db,            \* the store: table name -> set of rows
  nextId,        \* gen_random_uuid(): the next fresh row id
  creds,         \* table admin_password (never written by the system)
  allowedOrigins,\* env ALLOWED_ORIGINS, split on ","
  allowedDomains,\* env ALLOWED_DOMAINS (admin-write), split on ","
  admitted,      \* requests admitted by the observed rate limiter, per window
  configOk,      \* env SUPABASE_URL and the keys are set
  rateLimits,    \* per edge function: the module-level Map key -> entry
  now,           \* Date.now() in ms
  focus,         \* the edge function whose rate limiter is observed
  nreq,          \* number of requests served so far
  lastReq,       \* the request served last
  lastResp,      \* its response, with the guards it passed and queries issued
  prevRl,        \* rate-limit map before the last request
  prevDb,        \* store before the last request
  authLog,       \* auth-verify: the passwords submitted and their responses
  cl,            \* dashboard clients (api-secure.js): where each stands in
                 \* its call, and the calls settled so far, in order
  adminPassword, \* api-secure.js: the in-memory admin password
  dash           \* MetricsDashboard: the component's state and its fetches

vars == <<db, nextId, creds, allowedOrigins, allowedDomains, configOk,
          rateLimits, now, focus, nreq, lastReq, lastResp, prevRl, prevDb,
          authLog, admitted, cl, adminPassword, dash>>

-----------------------------------------------------------------------------
(* Bounds of the model *)

MaxReq == 2        \* requests served in one behaviour of Spec
MaxIds == 2        \* rows inserted in one behaviour
MaxTicks == 2      \* clock advances in one behaviour of SpecRate
MaxOther == 6      \* requests a second caller gets admitted in one window
MaxWindows == 1    \* windows after the first in which requests arrive in SpecWindow
MaxCalls == 4      \* client calls settled in one behaviour of SpecClient
MaxSaves == 1      \* goals saved from the dashboard in one behaviour
MaxMetricReq == 3  \* requests of one behaviour of SpecMetrics
MaxContactReq == 3 \* requests of one behaviour of SpecContacts

-----------------------------------------------------------------------------
(* JavaScript values of request payloads and row cells *)

Num(n) == [t |-> "num", n |-> n, s |-> ""]
Frac(n) == [t |-> "frac", n |-> n, s |-> ""]
Str(s) == [t |-> "str", n |-> 0, s |-> s]
Null == [t |-> "null", n |-> 0, s |-> ""]
Undef == [t |-> "undef", n |-> 0, s |-> ""]

\* typeof v === "number" (Frac(n) is the non-integer number n + 1/2)
IsNumber(v) == v.t \in {"num", "frac"}
\* Number.isInteger(v)
IsInteger(v) == v.t = "num"
\* typeof v === "string"
IsString(v) == v.t = "str"
\* !v
Falsy(v) == \/ v.t \in {"null", "undef"}
            \/ v.t = "num" /\ v.n = 0
            \/ v.t = "str" /\ v.s = ""
\* v < 0 for a number v
Negative(v) == IsNumber(v) /\ v.n < 0
\* v || d
OrElse(v, d) == IF Falsy(v) THEN d ELSE v

\* obj.k for an object given as a function on its own keys
Get(obj, k) == IF k \in DOMAIN obj THEN obj[k] ELSE Undef
\* Object.keys(obj)
Keys(obj) == DOMAIN obj
\* {...obj, ...upd}
Merge(obj, upd) == [k \in DOMAIN obj \cup DOMAIN upd |->
                      IF k \in DOMAIN upd THEN upd[k] ELSE obj[k]]
\* the empty object {}
EmptyObj == [k \in {} |-> Undef]
\* a missing (undefined) object-valued field of a JSON body
NoObj == [missing |-> Undef]
IsObj(o) == "missing" \notin DOMAIN o

-----------------------------------------------------------------------------
(* Credentials: verifyPassword / verifyAdminPassword *)

Passwords == {"", "pw1", "pw2", "pw3"}

\* crypto.subtle.deriveBits(PBKDF2): a deterministic digest of (password, salt)
Pbkdf2(password, salt) ==
  CASE password = ""    -> 10 + salt
    [] password = "pw1" -> 20 + salt
    [] password = "pw2" -> 30 + salt
    [] OTHER            -> 40 + salt

\* a stored hash "iterations$salt$hash" as the list of its "$"-separated parts;
\* iterations = -1 stands for a part parseInt reads as NaN
HashOf(password, salt) == <<100000, salt, Pbkdf2(password, salt)>>

verifyPassword(password, storedHash) ==
  IF Len(storedHash) # 3 THEN FALSE
  ELSE IF storedHash[1] = -1 THEN FALSE
  ELSE Pbkdf2(password, storedHash[2]) = storedHash[3]

\* .from("admin_password").select(...).eq("is_admin", true), then the loop
RECURSIVE AnyMatch(_, _)
AnyMatch(password, records) ==
  IF records = <<>> THEN FALSE
  ELSE IF verifyPassword(password, Head(records).password_hash) THEN TRUE
  ELSE AnyMatch(password, Tail(records))

verifyAdminPassword(table, password, lookupFails) ==
  LET adminRecords == SelectSeq(table, LAMBDA r : r.is_admin)
  IN  IF lookupFails \/ Len(adminRecords) = 0 THEN FALSE
      ELSE AnyMatch(password, adminRecords)

-----------------------------------------------------------------------------
(* Origin allow-list *)

\* s.includes(sub) on the strings the model uses
Includes(s, sub) ==
  <<s, sub>> \in { <<"https://elkpeak.com", "elkpeak.com">>,
                   <<"https://elkpeak.com.evil.example", "elkpeak.com">>,
                   <<"https://elkpeak.com/dashboard", "elkpeak.com">> }

\* origin && allowedOrigins.some(o => origin.includes(o.trim()))
SomeIncludes(header, allowed) ==
  header # "" /\ \E i \in 1..Len(allowed) : Includes(header, allowed[i])

\* the handlers that accept Origin or Referer
OriginAllowed(req, allowed) ==
  Len(allowed) = 0 \/ SomeIncludes(req.origin, allowed)
                   \/ SomeIncludes(req.referer, allowed)

\* contact-submit looks at Origin only
OriginAllowedStrict(req, allowed) ==
  Len(allowed) = 0 \/ SomeIncludes(req.origin, allowed)

-----------------------------------------------------------------------------
(* Rate limiter *)

RateLimited == {"admin-manage-data", "admin-update-goal", "admin-log-metrics",
                "admin-contacts", "contact-submit", "auth-verify",
                "public-metrics"}

maxRequests(ep) ==
  CASE ep = "contact-submit"    -> 5
    [] ep = "auth-verify"       -> 10
    [] ep = "admin-update-goal" -> 60
    [] ep = "public-metrics"    -> 60
    [] OTHER                    -> 100

windowMs(ep) ==
  CASE ep = "contact-submit" -> 3600000
    [] ep = "auth-verify"    -> 300000
    [] OTHER                 -> 60000

\* every caller under one address
CallerIp_Shared(req) == "unknown"

\* x-forwarded-for || x-real-ip || "unknown"
CallerIp(req) ==
  IF req.xff # "" THEN req.xff
  ELSE IF req.realip # "" THEN req.realip ELSE "unknown"

\* public-metrics appends the first 50 characters of User-Agent
getRateLimitKey(req) ==
  IF req.ep = "public-metrics"
  THEN <<CallerIp(req), IF req.ua # "" THEN req.ua ELSE "unknown">>
  ELSE <<CallerIp(req)>>

\* checkRateLimit: [ok, map]
\* a limiter that counts the requests it rejects
checkRateLimit_CountsRejected(map, key, max, window, t) ==
  IF key \notin DOMAIN map \/ t > map[key].resetTime
  THEN [ok |-> TRUE,
        map |-> [k \in DOMAIN map \cup {key} |->
                   IF k = key THEN [count |-> 1, resetTime |-> t + window]
                   ELSE map[k]]]
  ELSE [ok |-> map[key].count < max, map |-> [map EXCEPT ![key].count = @ + 1]]

\* a limiter whose window never ends
checkRateLimit_NeverResets(map, key, max, window, t) ==
  IF key \notin DOMAIN map
  THEN [ok |-> TRUE,
        map |-> [k \in DOMAIN map \cup {key} |->
                   IF k = key THEN [count |-> 1, resetTime |-> t + window]
                   ELSE map[k]]]
  ELSE IF map[key].count >= max
  THEN [ok |-> FALSE, map |-> map]
  ELSE [ok |-> TRUE, map |-> [map EXCEPT ![key].count = @ + 1]]

checkRateLimit_OffByOne(map, key, max, window, t) ==
  IF key \notin DOMAIN map \/ t > map[key].resetTime
  THEN [ok |-> TRUE,
        map |-> [k \in DOMAIN map \cup {key} |->
                   IF k = key THEN [count |-> 1, resetTime |-> t + window]
                   ELSE map[k]]]
  ELSE IF map[key].count > max
  THEN [ok |-> FALSE, map |-> map]
  ELSE [ok |-> TRUE, map |-> [map EXCEPT ![key].count = @ + 1]]

checkRateLimit(map, key, max, window, t) ==
  IF key \notin DOMAIN map \/ t > map[key].resetTime
  THEN [ok |-> TRUE,
        map |-> [k \in DOMAIN map \cup {key} |->
                   IF k = key THEN [count |-> 1, resetTime |-> t + window]
                   ELSE map[k]]]
  ELSE IF map[key].count >= max
  THEN [ok |-> FALSE, map |-> map]
  ELSE [ok |-> TRUE, map |-> [map EXCEPT ![key].count = @ + 1]]

-----------------------------------------------------------------------------
(* The store: tables of schema.sql and the PostgREST operations used on them.
   created_at columns are left out: no handler reads or writes them. *)

MonthlyTables == {"elk_peak_monthly_revenue", "elk_peak_monthly_engagements",
                  "elk_peak_monthly_mrr", "life_organizer_monthly_revenue",
                  "friendly_tech_monthly_metrics", "runtime_pm_monthly_metrics",
                  "organization_monthly_costs"}

EntityTables == {"elk_peak_clients", "elk_peak_projects",
                 "life_organizer_kdp_sales", "life_organizer_notion_sales",
                 "friendly_tech_days", "friendly_tech_hoa_clients",
                 "runtime_pm_users", "runtime_pm_subscriptions"}

Tables == MonthlyTables \cup EntityTables
          \cup {"quarter_goal", "business_metrics_overrides", "contact_submissions"}

\* the monthly figures of each monthly-log table
Figures(table) ==
  CASE table = "elk_peak_monthly_revenue"       -> {"revenue"}
    [] table = "elk_peak_monthly_engagements"   -> {"count"}
    [] table = "elk_peak_monthly_mrr"           -> {"mrr"}
    [] table = "life_organizer_monthly_revenue" ->
         {"kdp_revenue", "notion_revenue", "etsy_revenue", "gumroad_revenue"}
    [] table = "friendly_tech_monthly_metrics"  -> {"revenue", "tech_days"}
    [] table = "runtime_pm_monthly_metrics"     ->
         {"active_users", "revenue", "active_subscriptions"}
    [] table = "organization_monthly_costs"     -> {"cost"}
    [] OTHER -> {}

\* columns of a table other than id
Columns(table) ==
  CASE table \in MonthlyTables -> {"year", "month", "notes"} \cup Figures(table)
    [] table = "quarter_goal" ->
         {"name", "target_value", "current_value", "quarter", "year",
          "metric_type", "order"}
    [] table = "business_metrics_overrides" ->
         {"company", "metric_key", "value", "updated_at", "updated_by"}
    [] table = "elk_peak_clients" ->
         {"name", "status", "monthly_revenue", "start_date", "notes"}
    [] table = "elk_peak_projects" ->
         {"name", "client_id", "revenue", "status", "start_date", "end_date", "notes"}
    [] table \in {"life_organizer_kdp_sales", "life_organizer_notion_sales"} ->
         {"date", "units", "revenue", "product_name", "notes"}
    [] table = "friendly_tech_days" ->
         {"date", "hoa_client_id", "revenue", "hours", "sessions_count", "notes"}
    [] table = "friendly_tech_hoa_clients" ->
         {"name", "status", "contact_email", "contact_phone", "address", "notes"}
    [] table = "runtime_pm_users" ->
         {"email", "status", "signup_date", "last_active_date",
          "subscription_tier", "notes"}
    [] table = "runtime_pm_subscriptions" ->
         {"user_id", "status", "monthly_amount", "start_date", "end_date", "notes"}
    [] table = "contact_submissions" ->
         {"name", "email", "company", "message", "status", "notes"}
    [] OTHER -> {}

\* INTEGER and FLOAT columns
IntegerColumns == {"year", "month", "quarter", "order", "count", "tech_days",
                   "active_users", "active_subscriptions", "units", "hours",
                   "sessions_count"}
FloatColumns == {"revenue", "mrr", "kdp_revenue", "notion_revenue", "etsy_revenue",
                 "gumroad_revenue", "cost", "target_value", "current_value",
                 "value", "monthly_revenue", "monthly_amount"}

\* DEFAULT of a column
ColumnDefault(table, col) ==
  IF col = "status" /\ table = "contact_submissions" THEN Str("new")
  ELSE IF col = "status" THEN Str("active")
  ELSE IF col \in Figures(table) \cup {"monthly_revenue", "monthly_amount",
                                       "revenue", "units", "hours", "sessions_count"}
  THEN Num(0)
  ELSE Null

\* NOT NULL columns
NotNull(table) ==
  CASE table \in MonthlyTables -> {"year", "month"}
    [] table = "quarter_goal" -> {"name", "target_value", "quarter", "year"}
    [] table = "business_metrics_overrides" -> {"company", "metric_key", "value"}
    [] table \in {"elk_peak_clients", "friendly_tech_hoa_clients"} -> {"name", "status"}
    [] table = "elk_peak_projects" -> {"name"}
    [] table \in {"life_organizer_kdp_sales", "life_organizer_notion_sales",
                  "friendly_tech_days"} -> {"date"}
    [] table = "runtime_pm_users" -> {"email", "status", "signup_date"}
    [] table = "runtime_pm_subscriptions" -> {"status", "start_date"}
    [] table = "contact_submissions" -> {"name", "email", "message"}
    [] OTHER -> {}

\* UNIQUE constraints
UniqueKey(table) ==
  CASE table \in MonthlyTables -> {"year", "month"}
    [] table = "business_metrics_overrides" -> {"company", "metric_key"}
    [] OTHER -> {}

MetricTypes == {"elk_peak_mrr", "life_organizer_revenue", "friendly_tech_revenue",
                "runtime_pm_users", "runtime_pm_mrr", "custom"}

\* column types, NOT NULL and CHECK constraints on one row
RowOk(table, row) ==
  /\ \A c \in NotNull(table) : row[c].t \notin {"null", "undef"}
  /\ \A c \in DOMAIN row \cap IntegerColumns : row[c].t \in {"num", "null"}
  /\ \A c \in DOMAIN row \cap FloatColumns : row[c].t \in {"num", "frac", "null"}
  /\ table \in MonthlyTables => row["month"].n >= 1 /\ row["month"].n <= 12
  /\ table = "quarter_goal" =>
       /\ row["quarter"].n >= 1 /\ row["quarter"].n <= 4
       /\ row["metric_type"].t = "null" \/ row["metric_type"].s \in MetricTypes

Uuid(n) == Str(<<"u1", "u2", "u3", "u4", "u5", "u6">>[n])

SameOn(cols, r1, r2) == \A c \in cols : r1[c] = r2[c]

\* the object sent as a row: undefined members are dropped by JSON.stringify
Sent(data) == [k \in {c \in DOMAIN data : data[c].t # "undef"} |-> data[k]]

\* a new row: the data over the column defaults, with a generated id
NewRow(table, data, id) ==
  [c \in Columns(table) \cup {"id"} |->
     IF c = "id" THEN (IF "id" \in DOMAIN data THEN data["id"] ELSE Uuid(id))
     ELSE IF c \in DOMAIN data THEN data[c] ELSE ColumnDefault(table, c)]

\* whether a row may be added to / may replace old in the table
Accepts(rows, table, row, old) ==
  /\ RowOk(table, row)
  /\ \A r \in rows \ old : r["id"] # row["id"]
  /\ UniqueKey(table) # {} =>
       \A r \in rows \ old : ~SameOn(UniqueKey(table), r, row)

\* results: [err, db, rows, used], used = 1 when an id was consumed
Fail(d) == [err |-> TRUE, db |-> d, rows |-> {}, used |-> 0]

\* .from(table).insert(data).select().single()
Insert(d, table, data0, id, fails) ==
  LET data == Sent(data0)
      row == NewRow(table, data, id)
  IN  IF fails \/ table \notin Tables
         \/ ~(DOMAIN data \subseteq Columns(table) \cup {"id"})
      THEN Fail(d)
      ELSE IF ~Accepts(d[table], table, row, {}) THEN Fail(d)
      ELSE [err |-> FALSE, db |-> [d EXCEPT ![table] = @ \cup {row}],
            rows |-> {row}, used |-> 1]

\* a plain INSERT that ignores the UNIQUE constraint
Upsert_AlwaysInsert(d, table, data0, onConflict, id, fails) ==
  LET data == Sent(data0)
      row == NewRow(table, data, id)
  IN  IF fails THEN Fail(d)
      ELSE [err |-> FALSE, db |-> [d EXCEPT ![table] = @ \cup {row}],
            rows |-> {row}, used |-> 1]

\* .from(table).upsert(data, {onConflict}).select().single()
\* INSERT ... ON CONFLICT (onConflict) DO UPDATE SET <the columns sent>
Upsert(d, table, data0, onConflict, id, fails) ==
  LET data == Sent(data0)
      row == NewRow(table, data, id)
      hit == IF table \in Tables
             THEN {r \in d[table] : SameOn(onConflict, r, row)} ELSE {}
  IN  IF fails \/ table \notin Tables
         \/ ~(DOMAIN data \subseteq Columns(table) \cup {"id"})
         \/ ~RowOk(table, row)
      THEN Fail(d)
      ELSE IF hit = {}
      THEN Insert(d, table, data0, id, fails)
      ELSE LET old == CHOOSE r \in hit : TRUE
               new == Merge(old, data)
           IN  IF ~Accepts(d[table], table, new, {old}) THEN Fail(d)
               ELSE [err |-> FALSE,
                     db |-> [d EXCEPT ![table] = (@ \ {old}) \cup {new}],
                     rows |-> {new}, used |-> 0]

\* .from(table).update(data).eq("id", id).select().single()
\* .single() reports an error when no row was matched; nothing is written then
Update(d, table, data0, id, fails) ==
  LET data == Sent(data0)
      hit == IF table \in Tables
             THEN {r \in d[table] : r["id"] = id} ELSE {}
  IN  IF fails \/ table \notin Tables \/ hit = {}
         \/ ~(DOMAIN data \subseteq Columns(table) \cup {"id"})
      THEN Fail(d)
      ELSE LET old == CHOOSE r \in hit : TRUE
               new == Merge(old, data)
           IN  IF ~Accepts(d[table], table, new, {old}) THEN Fail(d)
               ELSE [err |-> FALSE,
                     db |-> [d EXCEPT ![table] = (@ \ {old}) \cup {new}],
                     rows |-> {new}, used |-> 0]

\* .from(table).delete().eq(k1, v1).eq(k2, v2)..., filters as an object
Matches(row, filters) == \A k \in DOMAIN filters : row[k] = filters[k]

Delete(d, table, filters, fails) ==
  IF fails \/ table \notin Tables
     \/ ~(DOMAIN filters \subseteq Columns(table) \cup {"id"})
     \/ \E k \in DOMAIN filters : filters[k].t = "undef"
  THEN Fail(d)
  ELSE [err |-> FALSE,
        db |-> [d EXCEPT ![table] = {r \in @ : ~Matches(r, filters)}],
        rows |-> {}, used |-> 0]

\* .from(table).select("*").eq(k1, v1)...
Select_FirstFilterOnly(d, table, filters, fails) ==
  IF fails \/ table \notin Tables
  THEN Fail(d)
  ELSE [err |-> FALSE, db |-> d,
        rows |-> {r \in d[table] :
                    \A k \in DOMAIN filters \cap {"quarter"} : r[k] = filters[k]},
        used |-> 0]

Select(d, table, filters, fails) ==
  IF fails \/ table \notin Tables
     \/ ~(DOMAIN filters \subseteq Columns(table) \cup {"id"})
     \/ \E k \in DOMAIN filters : filters[k].t = "undef"
  THEN Fail(d)
  ELSE [err |-> FALSE, db |-> d,
        rows |-> {r \in d[table] : Matches(r, filters)}, used |-> 0]

-----------------------------------------------------------------------------
(* Requests and responses.
   A request: [ep, method, origin, referer, xff, realip, ua, pw, body,
               credFails, dbFails]; pw = "" when x-admin-password is absent;
   credFails / dbFails: the credential lookup / the business query fails in
   the store.  A body: [json, operation, table, data, id, filters, updates,
   password]; json = FALSE when req.json() throws. *)

\* a nested object as a JavaScript value
Obj(o) == [t |-> "obj", n |-> 0, s |-> "", o |-> o]

\* s.length of the strings the model uses
Length(s) ==
  CASE s = ""      -> 0
    [] s = "   "   -> 3
    [] s = " Ann " -> 5
    [] s = "L101"  -> 101
    [] s = "L201"  -> 201
    [] s = "L999"  -> 999
    [] s = "L1001" -> 1001
    [] OTHER       -> 6

\* a handler's outcome: the response (status, body), the store and rate-limit
\* map it leaves, ids consumed, guards passed and queries issued on tables
Out(status, body, d, rl, used, passed, queries) ==
  [status |-> status, body |-> body, db |-> d, rl |-> rl, used |-> used,
   passed |-> passed, queries |-> queries]

Err(msg) == [error |-> msg]

\* the result of a store operation as a handler outcome
Result(r, okBody, rl, passed, queries, dbErrBody) ==
  IF r.err THEN Out(500, dbErrBody, r.db, rl, 0, passed, queries)
  ELSE Out(200, okBody, r.db, rl, r.used, passed \cup {"store"}, queries)

Q(op, table) == [op |-> op, table |-> table]

\* 429 body of each handler
RateLimitMessage(ep) ==
  CASE ep = "public-metrics" -> "Rate limit exceeded. Please try again later."
    [] ep = "contact-submit" -> "Too many submissions. Please try again later."
    [] ep = "auth-verify" ->
         "Too many authentication attempts. Please try again later."
    [] OTHER -> "Rate limit exceeded"

\* The guard sequence shared by admin-manage-data, admin-update-goal,
\* admin-log-metrics, admin-contacts and public-metrics, up to the body:
\* OPTIONS, origin allow-list, rate limit, configuration, x-admin-password.
\* [stop, out]: stop = TRUE when the handler has answered.
AdminGuards_RateFirst(req) ==
  LET rl0 == rateLimits[req.ep]
      lim == checkRateLimit(rl0, getRateLimitKey(req), maxRequests(req.ep),
                            windowMs(req.ep), now)
  IN  IF req.method = "OPTIONS"
      THEN [stop |-> TRUE, out |-> Out(200, [text |-> "ok"], db, rl0, 0, {}, {})]
      ELSE IF ~lim.ok
      THEN [stop |-> TRUE,
            out |-> Out(429, Err(RateLimitMessage(req.ep)), db, lim.map, 0, {}, {})]
      ELSE IF ~OriginAllowed(req, allowedOrigins)
      THEN [stop |-> TRUE,
            out |-> Out(403, Err("Origin not allowed"), db, lim.map, 0, {"rate"}, {})]
      ELSE IF ~configOk
      THEN [stop |-> TRUE,
            out |-> Out(500, Err("Server configuration error"), db, lim.map, 0,
                        {"origin", "rate"}, {})]
      ELSE IF req.pw = ""
      THEN [stop |-> TRUE,
            out |-> Out(401, Err("Admin authentication required"), db, lim.map, 0,
                        {"origin", "rate", "config"}, {})]
      ELSE IF ~verifyAdminPassword(creds, req.pw, req.credFails)
      THEN [stop |-> TRUE,
            out |-> Out(403, Err("Invalid admin credentials"), db, lim.map, 0,
                        {"origin", "rate", "config"}, {Q("select", "admin_password")})]
      ELSE [stop |-> FALSE,
            out |-> Out(0, Err(""), db, lim.map, 0,
                        {"origin", "rate", "config", "cred"},
                        {Q("select", "admin_password")})]

\* guards that answer the preflight after the origin check and the rate limit
AdminGuards_PreflightGuarded(req) ==
  LET rl0 == rateLimits[req.ep]
      lim == checkRateLimit(rl0, getRateLimitKey(req), maxRequests(req.ep),
                            windowMs(req.ep), now)
  IN  IF ~OriginAllowed(req, allowedOrigins)
      THEN [stop |-> TRUE,
            out |-> Out(403, Err("Origin not allowed"), db, rl0, 0, {}, {})]
      ELSE IF ~lim.ok
      THEN [stop |-> TRUE,
            out |-> Out(429, Err(RateLimitMessage(req.ep)), db, lim.map, 0,
                        {"origin"}, {})]
      ELSE IF req.method = "OPTIONS"
      THEN [stop |-> TRUE, out |-> Out(200, [text |-> "ok"], db, lim.map, 0, {}, {})]
      ELSE IF ~configOk
      THEN [stop |-> TRUE,
            out |-> Out(500, Err("Server configuration error"), db, lim.map, 0,
                        {"origin", "rate"}, {})]
      ELSE IF req.pw = ""
      THEN [stop |-> TRUE,
            out |-> Out(401, Err("Admin authentication required"), db, lim.map, 0,
                        {"origin", "rate", "config"}, {})]
      ELSE IF ~verifyAdminPassword(creds, req.pw, req.credFails)
      THEN [stop |-> TRUE,
            out |-> Out(403, Err("Invalid admin credentials"), db, lim.map, 0,
                        {"origin", "rate", "config"}, {Q("select", "admin_password")})]
      ELSE [stop |-> FALSE,
            out |-> Out(0, Err(""), db, lim.map, 0,
                        {"origin", "rate", "config", "cred"},
                        {Q("select", "admin_password")})]

AdminGuards(req) ==
  LET rl0 == rateLimits[req.ep]
      lim == checkRateLimit(rl0, getRateLimitKey(req), maxRequests(req.ep),
                            windowMs(req.ep), now)
  IN  IF req.method = "OPTIONS"
      THEN [stop |-> TRUE, out |-> Out(200, [text |-> "ok"], db, rl0, 0, {}, {})]
      ELSE IF ~OriginAllowed(req, allowedOrigins)
      THEN [stop |-> TRUE,
            out |-> Out(403, Err("Origin not allowed"), db, rl0, 0, {}, {})]
      ELSE IF ~lim.ok
      THEN [stop |-> TRUE,
            out |-> Out(429, Err(RateLimitMessage(req.ep)), db, lim.map, 0,
                        {"origin"}, {})]
      ELSE IF ~configOk
      THEN [stop |-> TRUE,
            out |-> Out(500, Err("Server configuration error"), db, lim.map, 0,
                        {"origin", "rate"}, {})]
      ELSE IF req.pw = ""
      THEN [stop |-> TRUE,
            out |-> Out(401, Err("Admin authentication required"), db, lim.map, 0,
                        {"origin", "rate", "config"}, {})]
      ELSE IF ~verifyAdminPassword(creds, req.pw, req.credFails)
      THEN [stop |-> TRUE,
            out |-> Out(403, Err("Invalid admin credentials"), db, lim.map, 0,
                        {"origin", "rate", "config"}, {Q("select", "admin_password")})]
      ELSE [stop |-> FALSE,
            out |-> Out(0, Err(""), db, lim.map, 0,
                        {"origin", "rate", "config", "cred"},
                        {Q("select", "admin_password")})]

-----------------------------------------------------------------------------
(* admin-update-goal *)

\* validateGoalData: "" when valid, else the error message.
\* data is an object here (a missing data object makes data.id throw).
validateGoalData(operation, data) ==
  IF operation = "delete"
  THEN IF Falsy(Get(data, "id")) \/ ~IsString(Get(data, "id"))
       THEN "Valid goal ID is required" ELSE ""
  ELSE IF operation = "update"
  THEN IF Falsy(Get(data, "id")) \/ ~IsString(Get(data, "id"))
       THEN "Valid goal ID is required"
       ELSE IF Get(data, "updates").t # "obj"
       THEN "Updates object is required"
       ELSE IF Keys(Get(data, "updates").o)
                 \ {"name", "target_value", "current_value", "order"} # {}
       THEN "Invalid update fields"
       ELSE ""
  ELSE IF operation = "create"
  THEN LET name == Get(data, "name")
           target_value == Get(data, "target_value")
           quarter == Get(data, "quarter")
           year == Get(data, "year")
           metric_type == Get(data, "metric_type")
       IN  IF Falsy(name) \/ ~IsString(name) \/ Length(name.s) < 1
              \/ Length(name.s) > 200
           THEN "Name must be between 1 and 200 characters"
           ELSE IF ~IsNumber(target_value) \/ Negative(target_value)
           THEN "Target value must be a positive number"
           ELSE IF ~IsInteger(quarter) \/ quarter.n < 1 \/ quarter.n > 4
           THEN "Quarter must be between 1 and 4"
           ELSE IF ~IsInteger(year) \/ year.n < 2020 \/ year.n > 2100
           THEN "Year must be a valid year"
           ELSE IF ~Falsy(metric_type)
                   /\ ~(IsString(metric_type) /\ metric_type.s \in MetricTypes)
           THEN "Invalid metric type"
           ELSE ""
  ELSE "Invalid operation"

AdminUpdateGoalHandler(req) ==
  LET g == AdminGuards(req)
      b == req.body
      rl == g.out.rl
      p == g.out.passed
      q == g.out.queries
  IN  IF g.stop THEN g.out
      ELSE IF ~b.json
      THEN Out(500, Err("An error occurred"), db, rl, 0, p, q)
      ELSE IF b.operation \notin {"create", "update", "delete"}
      THEN Out(400, Err("Invalid operation. Must be: create, update, or delete"),
               db, rl, 0, p, q)
      ELSE IF ~IsObj(b.data)
      THEN Out(500, Err("An error occurred"), db, rl, 0, p, q)
      ELSE IF validateGoalData(b.operation, b.data) # ""
      THEN Out(400, Err(validateGoalData(b.operation, b.data)), db, rl, 0, p, q)
      ELSE LET pv == p \cup {"validate"}
               dbErr == Err("Database operation failed")
           IN  CASE b.operation = "create" ->
                      LET r == Insert(db, "quarter_goal", b.data, nextId, req.dbFails)
                      IN  Result(r, [rows |-> r.rows], rl, pv,
                                 q \cup {Q("insert", "quarter_goal")}, dbErr)
                 [] b.operation = "update" ->
                      LET r == Update(db, "quarter_goal", b.data["updates"].o,
                                      b.data["id"], req.dbFails)
                      IN  Result(r, [rows |-> r.rows], rl, pv,
                                 q \cup {Q("update", "quarter_goal")}, dbErr)
                 [] OTHER ->
                      LET r == Delete(db, "quarter_goal", [id |-> b.data["id"]],
                                      req.dbFails)
                      IN  Result(r, [success |-> TRUE], rl, pv,
                                 q \cup {Q("delete", "quarter_goal")}, dbErr)

-----------------------------------------------------------------------------
(* admin-manage-data *)

ALLOWED_TABLES == EntityTables \cup {"quarter_goal"}

\* the fields a create or update may carry, per allowed table
TABLE_ALLOWED_FIELDS(table) ==
  IF table \in ALLOWED_TABLES THEN Columns(table) ELSE {}

validateTableAccess_Any(table) == table \in Tables

validateTableAccess(table) == table \in ALLOWED_TABLES

\* a validation that lets every field through
validateFields_Any(table, data) == TRUE

validateFields(table, data) == Keys(data) \subseteq TABLE_ALLOWED_FIELDS(table)

\* the 500 body of admin-manage-data and admin-write: it carries error.message
DbErrDetails(msg) == [error |-> msg, details |-> "error.message"]

AdminManageDataHandler(req) ==
  LET g == AdminGuards(req)
      b == req.body
      rl == g.out.rl
      p == g.out.passed
      q == g.out.queries
      pv == p \cup {"parse", "validate"}
      dbErr == DbErrDetails("Database operation failed")
  IN  IF g.stop THEN g.out
      ELSE IF ~b.json
      THEN Out(500, Err("An error occurred"), db, rl, 0, p, q)
      ELSE IF b.operation \notin {"create", "update", "delete", "list"}
      THEN Out(400, Err("Invalid operation. Must be: create, update, delete, or list"),
               db, rl, 0, p \cup {"parse"}, q)
      ELSE IF ~validateTableAccess(b.table)
      THEN Out(400, Err("Table not allowed"), db, rl, 0, p \cup {"parse"}, q)
      ELSE CASE b.operation = "list" ->
                  LET r == Select(db, b.table,
                                  IF IsObj(b.filters) THEN b.filters ELSE EmptyObj,
                                  req.dbFails)
                  IN  Result(r, [rows |-> r.rows], rl, pv,
                             q \cup {Q("select", b.table)}, dbErr)
             [] b.operation = "create" ->
                  IF ~IsObj(b.data)
                  THEN Out(400, Err("Data object is required for create"),
                           db, rl, 0, p \cup {"parse"}, q)
                  ELSE IF ~validateFields(b.table, b.data)
                  THEN Out(400, Err("Invalid fields"), db, rl, 0, p \cup {"parse"}, q)
                  ELSE LET r == Insert(db, b.table, b.data, nextId, req.dbFails)
                       IN  Result(r, [rows |-> r.rows], rl, pv,
                                  q \cup {Q("insert", b.table)}, dbErr)
             [] b.operation = "update" ->
                  IF Falsy(b.id) \/ ~IsString(b.id)
                  THEN Out(400, Err("Valid ID is required for update"),
                           db, rl, 0, p \cup {"parse"}, q)
                  ELSE IF ~IsObj(b.data)
                  THEN Out(400, Err("Data object is required for update"),
                           db, rl, 0, p \cup {"parse"}, q)
                  ELSE IF ~validateFields(b.table, b.data)
                  THEN Out(400, Err("Invalid fields"), db, rl, 0, p \cup {"parse"}, q)
                  ELSE LET r == Update(db, b.table, b.data, b.id, req.dbFails)
                       IN  Result(r, [rows |-> r.rows], rl, pv,
                                  q \cup {Q("update", b.table)}, dbErr)
             [] OTHER ->
                  IF Falsy(b.id) \/ ~IsString(b.id)
                  THEN Out(400, Err("Valid ID is required for delete"),
                           db, rl, 0, p \cup {"parse"}, q)
                  ELSE LET r == Delete(db, b.table, [id |-> b.id], req.dbFails)
                       IN  Result(r, [success |-> TRUE], rl, pv,
                                  q \cup {Q("delete", b.table)}, dbErr)

-----------------------------------------------------------------------------
(* admin-log-metrics *)

validOperations == {"logElkPeakRevenue", "logElkPeakMRR", "logElkPeakEngagements",
                    "logLifeOrganizerRevenue", "logFriendlyTechMetrics",
                    "logRuntimePMMetrics", "logOrganizationCosts",
                    "deleteMonthlyLog"}

\* validateYearMonth: "" when valid, else the error message
validateYearMonth(year, month) ==
  IF ~IsInteger(year) \/ year.n < 2020 \/ year.n > 2100
  THEN "Year must be a valid year between 2020 and 2100"
  ELSE IF ~IsInteger(month) \/ month.n < 1 \/ month.n > 12
  THEN "Month must be between 1 and 12"
  ELSE ""

\* the table each log operation writes
LogTable(operation) ==
  CASE operation = "logElkPeakRevenue"       -> "elk_peak_monthly_revenue"
    [] operation = "logElkPeakMRR"           -> "elk_peak_monthly_mrr"
    [] operation = "logElkPeakEngagements"   -> "elk_peak_monthly_engagements"
    [] operation = "logLifeOrganizerRevenue" -> "life_organizer_monthly_revenue"
    [] operation = "logFriendlyTechMetrics"  -> "friendly_tech_monthly_metrics"
    [] operation = "logRuntimePMMetrics"     -> "runtime_pm_monthly_metrics"
    [] OTHER                                 -> "organization_monthly_costs"

\* the checks of each log operation, in the order of the code:
\* <<field, must be an integer, message>>
LogChecks(operation) ==
  CASE operation = "logElkPeakRevenue" ->
         << <<"revenue", FALSE, "Revenue must be a positive number">> >>
    [] operation = "logElkPeakMRR" ->
         << <<"mrr", FALSE, "MRR must be a positive number">> >>
    [] operation = "logElkPeakEngagements" ->
         << <<"count", TRUE, "Count must be a positive integer">> >>
    [] operation = "logLifeOrganizerRevenue" ->
         << <<"kdp_revenue", FALSE, "All revenue values must be positive numbers">>,
            <<"notion_revenue", FALSE, "All revenue values must be positive numbers">>,
            <<"etsy_revenue", FALSE, "All revenue values must be positive numbers">>,
            <<"gumroad_revenue", FALSE, "All revenue values must be positive numbers">> >>
    [] operation = "logFriendlyTechMetrics" ->
         << <<"revenue", FALSE, "Revenue must be a positive number">>,
            <<"tech_days", TRUE, "Tech days must be a positive integer">> >>
    [] operation = "logRuntimePMMetrics" ->
         << <<"active_users", TRUE, "Active users must be a positive integer">>,
            <<"revenue", FALSE, "Revenue must be a positive number">>,
            <<"active_subscriptions", TRUE,
              "Active subscriptions must be a positive integer">> >>
    [] OTHER ->
         << <<"cost", FALSE, "Cost must be a positive number">> >>

\* the message of the first check that fails, "" when none does
RECURSIVE FirstFailure(_, _)
FirstFailure(checks, data) ==
  IF checks = <<>> THEN ""
  ELSE LET v == Get(data, Head(checks)[1])
           bad == IF Head(checks)[2] THEN ~IsInteger(v) \/ v.n < 0
                  ELSE ~IsNumber(v) \/ v.n < 0
       IN  IF bad THEN Head(checks)[3] ELSE FirstFailure(Tail(checks), data)

\* the row a log operation upserts: { year, month, <figures>, notes: notes || null }
LogRow(table, data) ==
  [c \in {"year", "month", "notes"} \cup Figures(table) |->
     IF c = "notes" THEN OrElse(Get(data, "notes"), Null)
     ELSE IF c \in {"year", "month"} THEN Get(data, c)
     ELSE OrElse(Get(data, c), Num(0))]

AdminLogMetricsHandler(req) ==
  LET g == AdminGuards(req)
      b == req.body
      rl == g.out.rl
      p == g.out.passed
      q == g.out.queries
      pv == p \cup {"parse", "validate"}
      dbErr == Err("Database operation failed")
  IN  IF g.stop THEN g.out
      ELSE IF ~b.json
      THEN Out(500, Err("An error occurred"), db, rl, 0, p, q)
      ELSE IF b.operation \notin validOperations
      THEN Out(400, Err("Invalid operation"), db, rl, 0, p \cup {"parse"}, q)
      ELSE IF ~IsObj(b.data)
      THEN Out(500, Err("An error occurred"), db, rl, 0, p \cup {"parse"}, q)
      ELSE IF validateYearMonth(Get(b.data, "year"), Get(b.data, "month")) # ""
      THEN Out(400, Err(validateYearMonth(Get(b.data, "year"), Get(b.data, "month"))),
               db, rl, 0, p \cup {"parse"}, q)
      ELSE IF b.operation = "deleteMonthlyLog"
      THEN LET table == Get(b.data, "table")
           IN  IF ~(IsString(table) /\ table.s \in MonthlyTables)
               THEN Out(400, Err("Invalid table"), db, rl, 0, p \cup {"parse"}, q)
               ELSE LET r == Delete(db, table.s,
                                    [year |-> b.data["year"], month |-> b.data["month"]],
                                    req.dbFails)
                    IN  Result(r, [success |-> TRUE], rl, pv,
                               q \cup {Q("delete", table.s)}, dbErr)
      ELSE IF FirstFailure(LogChecks(b.operation), b.data) # ""
      THEN Out(400, Err(FirstFailure(LogChecks(b.operation), b.data)),
               db, rl, 0, p \cup {"parse"}, q)
      ELSE LET table == LogTable(b.operation)
               r == Upsert(db, table, LogRow(table, b.data), {"year", "month"},
                           nextId, req.dbFails)
           IN  Result(r, [rows |-> r.rows], rl, pv, q \cup {Q("upsert", table)}, dbErr)

-----------------------------------------------------------------------------
(* admin-write: the legacy write endpoint *)

\* admin-write keeps no rate-limit map
NoLimiter == [k \in {} |-> [count |-> 0, resetTime |-> 0]]

\* parseFloat(value) || 0
ParseFloatOr0(value) ==
  IF IsNumber(value) THEN value
  ELSE IF value = Str("7") THEN Num(7)
  ELSE Num(0)

\* the tables logMonthlyRevenue and deleteMonthlyRevenue accept
RevenueTables == {"elk_peak_monthly_revenue", "life_organizer_monthly_revenue",
                  "friendly_tech_monthly_metrics", "runtime_pm_monthly_metrics"}

AdminWriteOperation(req, passed) ==
  LET b == req.body
      data == b.data
      thrown == Out(500, Err("error.message"), db, NoLimiter, 0, passed, {})
      dbErr == DbErrDetails("Database error")
      rl == NoLimiter
      pv == passed \cup {"validate"}
  IN  CASE b.operation = "updateMetricOverride" ->
             IF ~IsObj(data) THEN thrown
             ELSE LET overrideData ==
                        [company |-> Get(data, "company"),
                         metric_key |-> Get(data, "metricKey"),
                         value |-> ParseFloatOr0(Get(data, "value")),
                         updated_at |-> Num(now)]
                      r == Upsert(db, "business_metrics_overrides", overrideData,
                                  {"company", "metric_key"}, nextId, req.dbFails)
                  IN  Result(r, [rows |-> r.rows], rl, pv,
                             {Q("upsert", "business_metrics_overrides")}, dbErr)
        [] b.operation = "createQuarterGoal" ->
             LET r == IF IsObj(data)
                      THEN Insert(db, "quarter_goal", data, nextId, req.dbFails)
                      ELSE Fail(db)
             IN  Result(r, [rows |-> r.rows], rl, pv,
                        {Q("insert", "quarter_goal")}, dbErr)
        [] b.operation = "updateQuarterGoal" ->
             LET r == IF IsObj(b.updates)
                      THEN Update(db, "quarter_goal", b.updates, b.id, req.dbFails)
                      ELSE Fail(db)
             IN  Result(r, [rows |-> r.rows], rl, pv,
                        {Q("update", "quarter_goal")}, dbErr)
        [] b.operation = "deleteQuarterGoal" ->
             LET r == Delete(db, "quarter_goal", [id |-> b.id], req.dbFails)
             IN  Result(r, [success |-> TRUE], rl, pv,
                        {Q("delete", "quarter_goal")}, dbErr)
        [] b.operation = "logMonthlyRevenue" ->
             IF ~IsObj(data) THEN thrown
             ELSE LET table == Get(data, "table")
                      revenueData == Get(data, "revenueData")
                  IN  IF ~(IsString(table) /\ table.s \in RevenueTables)
                      THEN Out(400, Err("Invalid table for monthly revenue logging"),
                               db, rl, 0, passed, {})
                      ELSE IF revenueData.t # "obj" THEN thrown
                      ELSE LET row == LogRow(table.s,
                                        Merge(revenueData.o,
                                              [year |-> Get(data, "year"),
                                               month |-> Get(data, "month")]))
                               r == Upsert(db, table.s, row, {"year", "month"},
                                           nextId, req.dbFails)
                           IN  Result(r, [rows |-> r.rows], rl, pv,
                                      {Q("upsert", table.s)}, dbErr)
        [] b.operation \in {"logMonthlyEngagements", "logMonthlyMRR"} ->
             IF ~IsObj(data) THEN thrown
             ELSE LET table == IF b.operation = "logMonthlyMRR"
                               THEN "elk_peak_monthly_mrr"
                               ELSE "elk_peak_monthly_engagements"
                      r == Upsert(db, table, LogRow(table, data), {"year", "month"},
                                  nextId, req.dbFails)
                  IN  Result(r, [rows |-> r.rows], rl, pv, {Q("upsert", table)}, dbErr)
        [] b.operation = "deleteMonthlyRevenue" ->
             IF ~IsObj(data) THEN thrown
             ELSE LET table == Get(data, "table")
                  IN  IF ~(IsString(table) /\ table.s \in RevenueTables)
                      THEN Out(400, Err("Invalid table for deleting monthly revenue"),
                               db, rl, 0, passed, {})
                      ELSE LET r == Delete(db, table.s,
                                           [year |-> Get(data, "year"),
                                            month |-> Get(data, "month")],
                                           req.dbFails)
                           IN  Result(r, [success |-> TRUE], rl, pv,
                                      {Q("delete", table.s)}, dbErr)
        [] b.operation \in {"deleteMonthlyEngagements", "deleteMonthlyMRR"} ->
             IF ~IsObj(data) THEN thrown
             ELSE LET table == IF b.operation = "deleteMonthlyMRR"
                               THEN "elk_peak_monthly_mrr"
                               ELSE "elk_peak_monthly_engagements"
                      r == Delete(db, table,
                                  [year |-> Get(data, "year"),
                                   month |-> Get(data, "month")], req.dbFails)
                  IN  Result(r, [success |-> TRUE], rl, pv, {Q("delete", table)}, dbErr)
        [] OTHER -> Out(400, Err("Invalid operation"), db, rl, 0, passed, {})

AdminWriteHandler(req) ==
  LET rl == NoLimiter
      isAllowed == \/ Len(allowedDomains) = 0
                   \/ SomeIncludes(req.origin, allowedDomains)
                   \/ SomeIncludes(req.referer, allowedDomains)
  IN  IF req.method = "OPTIONS"
      THEN Out(200, [text |-> "ok"], db, rl, 0, {}, {})
      ELSE IF ~isAllowed /\ Len(allowedDomains) > 0
      THEN Out(403, Err("Domain not allowed"), db, rl, 0, {}, {})
      ELSE IF ~configOk
      THEN Out(500, Err("Server configuration error - missing environment variables"),
               db, rl, 0, {"origin"}, {})
      ELSE IF ~req.body.json
      THEN Out(400, Err("Invalid request body"), db, rl, 0, {"origin", "config"}, {})
      ELSE IF req.body.operation = ""
      THEN Out(400, Err("Operation is required"), db, rl, 0,
               {"origin", "config", "parse"}, {})
      ELSE AdminWriteOperation(req, {"origin", "config", "parse"})

-----------------------------------------------------------------------------
(* auth-verify *)

\* the loop over the credential rows: the first row whose hash matches and
\* whose is_admin is set; <<>> when there is none
RECURSIVE FirstMatch_AnyRole(_, _)
FirstMatch_AnyRole(password, records) ==
  IF records = <<>> THEN <<>>
  ELSE IF verifyPassword(password, Head(records).password_hash)
  THEN <<Head(records)>>
  ELSE FirstMatch_AnyRole(password, Tail(records))

RECURSIVE FirstMatch(_, _)
FirstMatch(password, records) ==
  IF records = <<>> THEN <<>>
  ELSE IF verifyPassword(password, Head(records).password_hash)
          /\ Head(records).is_admin
  THEN <<Head(records)>>
  ELSE FirstMatch(password, Tail(records))

InvalidPassword == [valid |-> FALSE, error |-> "Invalid password"]

\* a success response that returns the matched row as it is stored
Verified_WholeRecord(matchedAdmin) ==
  [valid |-> TRUE, isAdmin |-> matchedAdmin.is_admin, name |-> matchedAdmin.name,
   password_hash |-> matchedAdmin.password_hash]

\* the success response: { valid: true, isAdmin, name }
Verified(matchedAdmin) ==
  [valid |-> TRUE, isAdmin |-> matchedAdmin.is_admin, name |-> matchedAdmin.name]

AuthVerifyHandler(req) ==
  LET rl0 == rateLimits[req.ep]
      lim == checkRateLimit(rl0, getRateLimitKey(req), maxRequests(req.ep),
                            windowMs(req.ep), now)
      rl == lim.map
      password == req.body.password
      q == {Q("select", "admin_password")}
  IN  IF req.method = "OPTIONS"
      THEN Out(200, [text |-> "ok"], db, rl0, 0, {}, {})
      ELSE IF ~OriginAllowed(req, allowedOrigins)
      THEN Out(403, Err("Origin not allowed"), db, rl0, 0, {}, {})
      ELSE IF ~lim.ok
      THEN Out(429, Err(RateLimitMessage(req.ep)), db, rl, 0, {"origin"}, {})
      ELSE IF ~configOk
      THEN Out(500, Err("Server configuration error"), db, rl, 0,
               {"origin", "rate"}, {})
      ELSE IF ~req.body.json
      THEN Out(500, Err("An error occurred"), db, rl, 0,
               {"origin", "rate", "config"}, {})
      ELSE IF Falsy(password) \/ ~IsString(password)
      THEN Out(400, Err("Password is required"), db, rl, 0,
               {"origin", "rate", "config", "parse"}, {})
      ELSE IF req.credFails \/ Len(creds) = 0
      THEN Out(401, InvalidPassword, db, rl, 0,
               {"origin", "rate", "config", "parse", "validate"}, q)
      ELSE LET matchedAdmin == FirstMatch(password.s, creds)
           IN  IF matchedAdmin = <<>>
               THEN Out(401, InvalidPassword, db, rl, 0,
                        {"origin", "rate", "config", "parse", "validate"}, q)
               ELSE Out(200, Verified(matchedAdmin[1]), db, rl, 0,
                        {"origin", "rate", "config", "parse", "validate", "cred"}, q)

-----------------------------------------------------------------------------
(* contact-submit *)

\* s.trim(), s.toLowerCase() and the e-mail pattern on the strings the model uses
Trim(s) == CASE s = " Ann " -> "Ann" [] s = "   " -> "" [] OTHER -> s
Lower(s) == IF s = "A@B.CO" THEN "a@b.co" ELSE s
validateEmail(s) == s \in {"a@b.co", "A@B.CO"}

\* a validation of the name and of the email alone
validateInput_NameAndEmailOnly(data) ==
  LET name == Get(data, "name")
      email == Get(data, "email")
  IN  IF Falsy(name) \/ ~IsString(name) \/ Length(Trim(name.s)) < 1
         \/ Length(name.s) > 100
      THEN "Name must be between 1 and 100 characters"
      ELSE IF Falsy(email) \/ ~IsString(email) \/ ~validateEmail(email.s)
      THEN "Valid email address is required"
      ELSE ""

\* validateInput: "" when valid, else the error message
validateInput(data) ==
  LET name == Get(data, "name")
      email == Get(data, "email")
      message == Get(data, "message")
      company == Get(data, "company")
  IN  IF Falsy(name) \/ ~IsString(name) \/ Length(Trim(name.s)) < 1
         \/ Length(name.s) > 100
      THEN "Name must be between 1 and 100 characters"
      ELSE IF Falsy(email) \/ ~IsString(email) \/ ~validateEmail(email.s)
      THEN "Valid email address is required"
      ELSE IF Falsy(message) \/ ~IsString(message) \/ Length(Trim(message.s)) < 1
              \/ Length(message.s) > 1000
      THEN "Message must be between 1 and 1000 characters"
      ELSE IF company.t \notin {"undef", "null"} /\ company # Str("")
              /\ (~IsString(company) \/ Length(company.s) > 100)
      THEN "Company name must be 100 characters or less"
      ELSE ""

\* the sanitised data of a valid submission, as the row inserted
ContactRow(data) ==
  [name |-> Str(Trim(data["name"].s)),
   email |-> Str(Lower(Trim(data["email"].s))),
   company |-> IF Falsy(Get(data, "company")) THEN Undef
               ELSE Str(Trim(data["company"].s)),
   message |-> Str(Trim(data["message"].s)),
   status |-> Str("new")]

ContactSubmitHandler(req) ==
  LET rl0 == rateLimits[req.ep]
      lim == checkRateLimit(rl0, getRateLimitKey(req), maxRequests(req.ep),
                            windowMs(req.ep), now)
      rl == lim.map
      b == req.body
  IN  IF req.method = "OPTIONS"
      THEN Out(200, [text |-> "ok"], db, rl0, 0, {}, {})
      ELSE IF ~OriginAllowedStrict(req, allowedOrigins)
      THEN Out(403, Err("Origin not allowed"), db, rl0, 0, {}, {})
      ELSE IF ~lim.ok
      THEN Out(429, Err(RateLimitMessage(req.ep)), db, rl, 0, {"origin"}, {})
      ELSE IF ~b.json
      THEN Out(500, Err("An error occurred processing your request"), db, rl, 0,
               {"origin", "rate"}, {})
      ELSE IF ~IsObj(b.data)
      THEN Out(400, Err("Invalid request body"), db, rl, 0,
               {"origin", "rate", "parse"}, {})
      ELSE IF validateInput(b.data) # ""
      THEN Out(400, Err(validateInput(b.data)), db, rl, 0,
               {"origin", "rate", "parse"}, {})
      ELSE IF ~configOk
      THEN Out(500, Err("Server configuration error"), db, rl, 0,
               {"origin", "rate", "parse", "validate"}, {})
      ELSE LET r == Insert(db, "contact_submissions", ContactRow(b.data), nextId,
                           req.dbFails)
           IN  IF r.err
               THEN Out(500, Err("Failed to save message"), r.db, rl, 0,
                        {"origin", "rate", "parse", "validate", "config"},
                        {Q("insert", "contact_submissions")})
               ELSE Out(200, [success |-> TRUE, message |-> "Message sent successfully",
                              id |-> (CHOOSE x \in r.rows : TRUE)["id"]],
                        r.db, rl, 1,
                        {"origin", "rate", "parse", "validate", "config", "store"},
                        {Q("insert", "contact_submissions")})

-----------------------------------------------------------------------------
(* admin-contacts *)

\* a list of statuses that lets another one through
validStatuses_WithSpam == {"new", "read", "replied", "archived", "spam"}

validStatuses == {"new", "read", "replied", "archived"}

AdminContactsHandler(req) ==
  LET g == AdminGuards(req)
      b == req.body
      data == b.data
      rl == g.out.rl
      p == g.out.passed
      q == g.out.queries
      pv == p \cup {"parse", "validate"}
      dbErr == Err("Database operation failed")
      thrown == Out(500, Err("An error occurred"), db, rl, 0, p, q)
      T == "contact_submissions"
  IN  IF g.stop THEN g.out
      ELSE IF ~b.json THEN thrown
      ELSE CASE b.operation = "list" ->
                  LET status == IF IsObj(data) THEN Get(data, "status") ELSE Undef
                      r == Select(db, T,
                                  IF Falsy(status) THEN EmptyObj
                                  ELSE [status |-> status], req.dbFails)
                  IN  Result(r, [rows |-> r.rows], rl, pv, q \cup {Q("select", T)}, dbErr)
             [] b.operation = "updateStatus" ->
                  IF ~IsObj(data) THEN thrown
                  ELSE IF Falsy(Get(data, "id")) \/ Falsy(Get(data, "status"))
                  THEN Out(400, Err("ID and status are required"), db, rl, 0,
                           p \cup {"parse"}, q)
                  ELSE IF ~(IsString(data["status"]) /\ data["status"].s \in validStatuses)
                  THEN Out(400, Err("Invalid status"), db, rl, 0, p \cup {"parse"}, q)
                  ELSE LET r == Update(db, T, [status |-> data["status"]],
                                       data["id"], req.dbFails)
                       IN  Result(r, [rows |-> r.rows], rl, pv,
                                  q \cup {Q("update", T)}, dbErr)
             [] b.operation = "addNotes" ->
                  IF ~IsObj(data) THEN thrown
                  ELSE IF Falsy(Get(data, "id")) \/ ~IsString(Get(data, "notes"))
                  THEN Out(400, Err("ID and notes are required"), db, rl, 0,
                           p \cup {"parse"}, q)
                  ELSE LET r == Update(db, T, [notes |-> data["notes"]],
                                       data["id"], req.dbFails)
                       IN  Result(r, [rows |-> r.rows], rl, pv,
                                  q \cup {Q("update", T)}, dbErr)
             [] b.operation = "delete" ->
                  IF ~IsObj(data) THEN thrown
                  ELSE IF Falsy(Get(data, "id"))
                  THEN Out(400, Err("ID is required"), db, rl, 0, p \cup {"parse"}, q)
                  ELSE LET r == Delete(db, T, [id |-> data["id"]], req.dbFails)
                       IN  Result(r, [success |-> TRUE], rl, pv,
                                  q \cup {Q("delete", T)}, dbErr)
             [] OTHER ->
                  Out(400, Err("Invalid operation"), db, rl, 0, p \cup {"parse"}, q)

-----------------------------------------------------------------------------
(* public-metrics: the aggregated metrics with the overrides applied *)

\* numbers in halves, so that n + 1/2 adds exactly
Halves(v) == IF v.t = "frac" THEN 2 * v.n + 1
             ELSE IF v.t = "num" THEN 2 * v.n ELSE 0
FromHalves(h) == IF h % 2 = 0 THEN Num(h \div 2) ELSE Frac((h - 1) \div 2)

\* rows.reduce((sum, m) => sum + (m[col] || 0), 0), in halves
RECURSIVE SumHalves(_, _)
SumHalves(rows, col) ==
  IF rows = {} THEN 0
  ELSE LET r == CHOOSE x \in rows : TRUE
       IN  Halves(r[col]) + SumHalves(rows \ {r}, col)

\* a reduce without "|| 0": nothing to add up yields null
Sum_NullWhenEmpty(rows, col) ==
  IF rows = {} THEN Null ELSE FromHalves(SumHalves(rows, col))

Sum(rows, col) == FromHalves(SumHalves(rows, col))

\* data?.[0] after .order("year", desc).order("month", desc)
Latest(rows) ==
  IF rows = {} THEN <<>>
  ELSE <<CHOOSE r \in rows :
           \A o \in rows : \/ o["year"].n < r["year"].n
                           \/ o["year"].n = r["year"].n /\ o["month"].n <= r["month"].n>>

\* data?.[0]?.[col]
LatestOf(rows, col) == IF Latest(rows) = <<>> THEN Undef ELSE Latest(rows)[1][col]

Active(rows) == {r \in rows : r["status"] = Str("active")}

MetricKeys ==
  {<<"elkPeak", k>> : k \in {"activeClients", "recurringClients",
                             "monthlyRecurringRevenue", "totalRevenue",
                             "totalProjects"}}
  \cup {<<"lifeOrganizer", k>> : k \in {"totalKDPRevenue", "totalNotionRevenue",
                                        "totalEtsyRevenue", "totalGumroadRevenue",
                                        "totalRevenue", "activeRuntimePMUsers"}}
  \cup {<<"friendlyTech", k>> : k \in {"totalRevenue", "activeHOAClients",
                                       "totalSessions"}}
  \cup {<<"runtimePM", k>> : k \in {"activeUsers", "monthlyRecurringRevenue",
                                    "totalSubscriptions", "totalRevenue"}}

\* the value computed from the tables for one metric
Computed(d, mk) ==
  LET elkCurrentMRR == OrElse(LatestOf(d["elk_peak_monthly_mrr"], "mrr"), Num(0))
      rpm == d["runtime_pm_monthly_metrics"]
      lo == d["life_organizer_monthly_revenue"]
  IN  CASE mk = <<"elkPeak", "activeClients">> ->
             Num(Cardinality(Active(d["elk_peak_clients"])))
        [] mk = <<"elkPeak", "recurringClients">> ->
             Num(Cardinality({c \in Active(d["elk_peak_clients"]) :
                                Halves(c["monthly_revenue"]) > 0}))
        [] mk = <<"elkPeak", "monthlyRecurringRevenue">> ->
             IF Halves(elkCurrentMRR) > 0 THEN elkCurrentMRR
             ELSE Sum(d["elk_peak_clients"], "monthly_revenue")
        [] mk = <<"elkPeak", "totalRevenue">> ->
             Sum(d["elk_peak_monthly_revenue"], "revenue")
        [] mk = <<"elkPeak", "totalProjects">> ->
             Num(Cardinality(d["elk_peak_projects"]))
        [] mk = <<"lifeOrganizer", "totalKDPRevenue">> -> Sum(lo, "kdp_revenue")
        [] mk = <<"lifeOrganizer", "totalNotionRevenue">> -> Sum(lo, "notion_revenue")
        [] mk = <<"lifeOrganizer", "totalEtsyRevenue">> -> Sum(lo, "etsy_revenue")
        [] mk = <<"lifeOrganizer", "totalGumroadRevenue">> -> Sum(lo, "gumroad_revenue")
        [] mk = <<"lifeOrganizer", "totalRevenue">> ->
             FromHalves(SumHalves(lo, "kdp_revenue") + SumHalves(lo, "notion_revenue")
                        + SumHalves(lo, "etsy_revenue")
                        + SumHalves(lo, "gumroad_revenue"))
        [] mk = <<"lifeOrganizer", "activeRuntimePMUsers">> ->
             Num(Cardinality(Active(d["runtime_pm_users"])))
        [] mk = <<"friendlyTech", "totalRevenue">> ->
             Sum(d["friendly_tech_monthly_metrics"], "revenue")
        [] mk = <<"friendlyTech", "activeHOAClients">> ->
             Num(Cardinality(Active(d["friendly_tech_hoa_clients"])))
        [] mk = <<"friendlyTech", "totalSessions">> ->
             Num(Cardinality(d["friendly_tech_days"]))
        [] mk = <<"runtimePM", "activeUsers">> ->
             OrElse(LatestOf(rpm, "active_users"),
                    Num(Cardinality(Active(d["runtime_pm_users"]))))
        [] mk = <<"runtimePM", "totalSubscriptions">> ->
             OrElse(LatestOf(rpm, "active_subscriptions"),
                    Num(Cardinality(Active(d["runtime_pm_subscriptions"]))))
        [] mk = <<"runtimePM", "monthlyRecurringRevenue">> ->
             OrElse(LatestOf(rpm, "revenue"),
                    Sum(d["runtime_pm_subscriptions"], "monthly_amount"))
        [] OTHER -> Sum(rpm, "revenue")

\* an override looked up by the name of the metric alone
applyOverride_KeyOnly(d, mk, value) ==
  LET hit == {o \in d["business_metrics_overrides"] : o["metric_key"] = Str(mk[2])}
  IN  IF hit = {} THEN value ELSE (CHOOSE o \in hit : TRUE)["value"]

\* overrides[`${company}:${key}`] !== undefined ? overrides[...] : value
applyOverride(d, mk, value) ==
  LET hit == {o \in d["business_metrics_overrides"] :
                o["company"] = Str(mk[1]) /\ o["metric_key"] = Str(mk[2])}
  IN  IF hit = {} THEN value ELSE (CHOOSE o \in hit : TRUE)["value"]

\* a query that fails yields { data: null }: the sums and counts fall back to 0
EmptyDb == [t \in Tables |-> {}]

\* a general merge: every override row becomes a field of its company
Metrics_MergeEveryRow(d) ==
  LET rows == {o \in d["business_metrics_overrides"] :
                 IsString(o["company"]) /\ IsString(o["metric_key"])}
  IN  [mk \in MetricKeys \cup {<<o["company"].s, o["metric_key"].s>> : o \in rows} |->
         applyOverride(d, mk, IF mk \in MetricKeys THEN Computed(d, mk) ELSE Undef)]

Metrics(d) == [mk \in MetricKeys |-> applyOverride(d, mk, Computed(d, mk))]

\* the monthly time series of the response: X.data || []
SeriesTable(sk) ==
  CASE sk = <<"elkPeak", "monthlyRevenue">> -> "elk_peak_monthly_revenue"
    [] sk = <<"elkPeak", "monthlyMRR">> -> "elk_peak_monthly_mrr"
    [] sk = <<"elkPeak", "monthlyEngagements">> -> "elk_peak_monthly_engagements"
    [] sk = <<"lifeOrganizer", "monthlyRevenue">> -> "life_organizer_monthly_revenue"
    [] sk = <<"friendlyTech", "monthlyMetrics">> -> "friendly_tech_monthly_metrics"
    [] OTHER -> "runtime_pm_monthly_metrics"

SeriesKeys ==
  {<<"elkPeak", "monthlyRevenue">>, <<"elkPeak", "monthlyMRR">>,
   <<"elkPeak", "monthlyEngagements">>, <<"lifeOrganizer", "monthlyRevenue">>,
   <<"friendlyTech", "monthlyMetrics">>, <<"runtimePM", "monthlyMetrics">>}

Series(d) == [sk \in SeriesKeys |-> d[SeriesTable(sk)]]

\* the body of the response
MetricsBody(d) == [metrics |-> Metrics(d), series |-> Series(d)]

PublicMetricsHandler(req) ==
  LET g == AdminGuards(req)
      reads == {Q("select", t) : t \in (MonthlyTables \ {"organization_monthly_costs"})
                                       \cup EntityTables
                                       \cup {"business_metrics_overrides"}}
  IN  IF g.stop THEN g.out
      ELSE Out(200, MetricsBody(IF req.dbFails THEN EmptyDb ELSE db),
               db, g.out.rl, 0, g.out.passed \cup {"store"}, g.out.queries \cup reads)

-----------------------------------------------------------------------------
(* The requests explored *)

Headers(method, origin, referer, xff, realip, ua) ==
  [method |-> method, origin |-> origin, referer |-> referer, xff |-> xff,
   realip |-> realip, ua |-> ua]

Site == Headers("POST", "https://elkpeak.com", "", "ip1", "", "ua1")
Foreign == Headers("POST", "https://evil.example", "", "ip1", "", "ua1")
Lookalike == Headers("POST", "https://elkpeak.com.evil.example", "", "ip1", "", "ua1")
RefererOnly == Headers("POST", "", "https://elkpeak.com/dashboard", "ip1", "", "ua1")
Preflight == Headers("OPTIONS", "https://elkpeak.com", "", "ip1", "", "ua1")
OtherIp == Headers("POST", "https://elkpeak.com", "", "", "ip2", "ua1")
OtherAgent == Headers("POST", "https://elkpeak.com", "", "ip1", "", "ua2")
Put == Headers("PUT", "https://elkpeak.com", "", "ip1", "", "ua1")
ForeignPreflight == Headers("OPTIONS", "https://evil.example", "", "ip1", "", "ua1")
\* callers behind no proxy: neither x-forwarded-for nor x-real-ip
Unaddressed == Headers("POST", "https://elkpeak.com", "", "", "", "ua1")
UnaddressedAgent == Headers("POST", "https://elkpeak.com", "", "", "", "ua2")

Req(ep, h, pw, body, credFails, dbFails) ==
  [ep |-> ep, method |-> h.method, origin |-> h.origin, referer |-> h.referer,
   xff |-> h.xff, realip |-> h.realip, ua |-> h.ua, pw |-> pw, body |-> body,
   credFails |-> credFails, dbFails |-> dbFails]

B0 == [json |-> TRUE, operation |-> "", table |-> "", data |-> NoObj, id |-> Undef,
       filters |-> NoObj, updates |-> NoObj, password |-> Undef]
BadJson == [B0 EXCEPT !.json = FALSE]
Op(operation, data) == [B0 EXCEPT !.operation = operation, !.data = data]
TableOp(operation, table, data, id, filters) ==
  [B0 EXCEPT !.operation = operation, !.table = table, !.data = data, !.id = id,
             !.filters = filters]

\* the guard probes every admin handler is given, around one body
Probes(ep, body) ==
  {Req(ep, h, "pw1", body, FALSE, FALSE) :
     h \in {Foreign, Lookalike, RefererOnly, Preflight, OtherIp}}
  \cup {Req(ep, Site, pw, body, FALSE, FALSE) : pw \in {"", "pw2", "pw3"}}
  \cup {Req(ep, Site, "pw1", body, TRUE, FALSE),
        Req(ep, Site, "pw1", body, FALSE, TRUE),
        Req(ep, Site, "pw1", BadJson, FALSE, FALSE)}

Admin(ep, bodies) == {Req(ep, Site, "pw1", b, FALSE, FALSE) : b \in bodies}

GoalData == [name |-> Str("Goal A"), target_value |-> Num(10), quarter |-> Num(1),
             year |-> Num(2025), metric_type |-> Str("custom")]

ManageDataBodies ==
  {TableOp("list", "quarter_goal", NoObj, Undef, [quarter |-> Num(qy[1]), year |-> Num(qy[2])]) :
     qy \in {<<1, 2025>>, <<2, 2025>>, <<1, 2026>>}}
  \cup {TableOp("list", "quarter_goal", NoObj, Undef, NoObj),
        TableOp("list", "business_metrics_overrides", NoObj, Undef,
                [company |-> Str("elkPeak"), metric_key |-> Str("totalRevenue")]),
        TableOp("list", "elk_peak_monthly_mrr", NoObj, Undef, NoObj),
        TableOp("list", "", NoObj, Undef, NoObj),
        TableOp("list", "admin_password", NoObj, Undef, NoObj),
        TableOp("create", "admin_password", [name |-> Str("Eve")], Undef, NoObj),
        TableOp("delete", "admin_password", NoObj, Str("a1"), NoObj),
        TableOp("create", "quarter_goal", GoalData, Undef, NoObj),
        TableOp("create", "quarter_goal", [GoalData EXCEPT !["quarter"] = Num(5)],
                Undef, NoObj),
        TableOp("create", "quarter_goal", Merge(GoalData, [id |-> Str("g1")]),
                Undef, NoObj),
        TableOp("create", "quarter_goal",
                Merge(GoalData, [created_at |-> Str("2020-01-01")]), Undef, NoObj),
        TableOp("create", "business_metrics_overrides",
                [company |-> Str("elkPeak"), metric_key |-> Str("totalRevenue"),
                 value |-> Num(5)], Undef, NoObj),
        TableOp("create", "elk_peak_clients",
                [name |-> Str("Acme"), monthly_revenue |-> Num(30)], Undef, NoObj),
        TableOp("create", "quarter_goal", NoObj, Undef, NoObj),
        TableOp("drop", "quarter_goal", NoObj, Undef, NoObj)}
  \cup {TableOp("update", "quarter_goal", data, Str(id), NoObj) :
          data \in {[name |-> Str("Goal B")], [quarter |-> Num(2)],
                    [year |-> Num(2026), metric_type |-> Str("elk_peak_mrr")],
                    [id |-> Str("g9")]},
          id \in {"g1", "u1"}}
  \cup {TableOp("update", "elk_peak_monthly_mrr", [mrr |-> Num(1)], Str("m1"), NoObj),
        TableOp("update", "quarter_goal", [name |-> Str("Goal B")], Undef, NoObj),
        TableOp("delete", "quarter_goal", NoObj, Str("g1"), NoObj),
        TableOp("delete", "elk_peak_monthly_mrr", NoObj, Str("m1"), NoObj),
        TableOp("delete", "quarter_goal", NoObj, Num(1), NoObj)}

UpdateGoalBodies ==
  {Op("create", GoalData),
   Op("create", [GoalData EXCEPT !["quarter"] = Num(5)]),
   Op("create", [GoalData EXCEPT !["year"] = Frac(2025)]),
   Op("create", [GoalData EXCEPT !["name"] = Str("L201")]),
   Op("create", [GoalData EXCEPT !["metric_type"] = Str("other")]),
   Op("create", [GoalData EXCEPT !["target_value"] = Num(-1)]),
   Op("create", NoObj),
   Op("archive", GoalData),
   Op("delete", [id |-> Str("g1")]),
   Op("delete", [id |-> Num(1)])}
  \cup {Op("update", [id |-> Str(id), updates |-> Obj(u)]) :
          id \in {"g1", "u1"},
          u \in {[name |-> Str("Goal B")], [quarter |-> Num(2)],
                 [current_value |-> Num(3), order |-> Num(1)],
                 [id |-> Str("g9")], [metric_type |-> Str("elk_peak_mrr")]}}
  \cup {Op("update", [id |-> Str("g1")])}

Log(operation, year, month, figures) ==
  Op(operation, Merge([year |-> year, month |-> month], figures))

LogMetricsBodies ==
  {Log("logElkPeakMRR", Num(2025), Num(m), [mrr |-> v]) :
     m \in {1, 2}, v \in {Num(100), Frac(40)}}
  \cup {Log("logElkPeakRevenue", Num(2025), Num(1),
            [revenue |-> Num(v), notes |-> Str("n")]) : v \in {10, 20}}
  \cup {Log("logElkPeakEngagements", Num(2025), Num(1), [count |-> Num(3)]),
        Log("logElkPeakEngagements", Num(2025), Num(1), [count |-> Frac(3)]),
        Log("logLifeOrganizerRevenue", Num(2025), Num(1),
            [kdp_revenue |-> Num(1), notion_revenue |-> Num(2),
             etsy_revenue |-> Num(0), gumroad_revenue |-> Num(4)]),
        Log("logLifeOrganizerRevenue", Num(2025), Num(1),
            [kdp_revenue |-> Num(1), notion_revenue |-> Num(2)]),
        Log("logFriendlyTechMetrics", Num(2025), Num(1),
            [revenue |-> Num(5), tech_days |-> Num(2)]),
        Log("logRuntimePMMetrics", Num(2025), Num(1),
            [active_users |-> Num(4), revenue |-> Num(9),
             active_subscriptions |-> Num(2)]),
        Log("logRuntimePMMetrics", Num(2025), Num(1),
            [active_users |-> Num(4), revenue |-> Num(9),
             active_subscriptions |-> Num(-2)]),
        Log("logOrganizationCosts", Num(2025), Num(1), [cost |-> Num(8)]),
        Log("logElkPeakMRR", Num(2025), Num(13), [mrr |-> Num(100)]),
        Log("logElkPeakMRR", Num(2025), Num(0), [mrr |-> Num(100)]),
        Log("logElkPeakMRR", Num(2019), Num(1), [mrr |-> Num(100)]),
        Log("logElkPeakMRR", Frac(2025), Num(1), [mrr |-> Num(100)]),
        Log("logElkPeakMRR", Num(2025), Num(1), [mrr |-> Num(-1)]),
        Log("logElkPeakMRR", Num(2025), Num(1), [mrr |-> Str("7")]),
        Log("logSomething", Num(2025), Num(1), [mrr |-> Num(1)]),
        Op("logElkPeakMRR", NoObj),
        Log("deleteMonthlyLog", Num(2025), Num(1),
            [table |-> Str("elk_peak_monthly_mrr")]),
        Log("deleteMonthlyLog", Num(2025), Num(1), [table |-> Str("quarter_goal")]),
        Log("deleteMonthlyLog", Num(2025), Num(1), EmptyObj)}


\* admin-write is called by the legacy client, which sends no x-admin-password
WriteOp(operation, data, id, updates) ==
  [B0 EXCEPT !.operation = operation, !.data = data, !.id = id, !.updates = updates]

Override(company, metricKey, value) ==
  [company |-> Str(company), metricKey |-> Str(metricKey), value |-> value]

AdminWriteBodies ==
  {WriteOp("updateMetricOverride", Override("elkPeak", "totalRevenue", v), Undef, NoObj) :
     v \in {Num(5), Num(6), Str("7"), Str("abc")}}
  \cup {WriteOp("updateMetricOverride", Override("runtimePM", "activeUsers", Num(5)),
                Undef, NoObj),
        WriteOp("updateMetricOverride", NoObj, Undef, NoObj),
        WriteOp("createQuarterGoal", GoalData, Undef, NoObj),
        WriteOp("deleteQuarterGoal", NoObj, Str("g1"), NoObj),
        WriteOp("", NoObj, Undef, NoObj),
        WriteOp("truncate", NoObj, Undef, NoObj)}
  \cup {WriteOp("updateQuarterGoal", NoObj, Str(id), u) :
          id \in {"g1", "u1"},
          u \in {[name |-> Str("Goal B")], [quarter |-> Num(2)],
                 [id |-> Str("g9")]}}
  \cup {WriteOp("logMonthlyRevenue",
                [table |-> Str(t), year |-> Num(2025), month |-> Num(1),
                 revenueData |-> Obj([revenue |-> Num(v)])], Undef, NoObj) :
          t \in {"elk_peak_monthly_revenue", "friendly_tech_monthly_metrics",
                 "elk_peak_monthly_mrr", "quarter_goal"},
          v \in {10, 20}}
  \cup {WriteOp("logMonthlyRevenue",
                [table |-> Str("elk_peak_monthly_revenue"), year |-> Num(2025),
                 month |-> Num(13), revenueData |-> Obj([revenue |-> Num(10)])],
                Undef, NoObj),
        WriteOp("logMonthlyRevenue",
                [table |-> Str("elk_peak_monthly_revenue"), year |-> Num(2025),
                 month |-> Num(1)], Undef, NoObj)}
  \cup {WriteOp(o, [year |-> Num(2025), month |-> Num(1), mrr |-> Num(v),
                    count |-> Num(v)], Undef, NoObj) :
          o \in {"logMonthlyMRR", "logMonthlyEngagements"}, v \in {100, 0}}
  \cup {WriteOp("deleteMonthlyRevenue",
                [table |-> Str(t), year |-> Num(2025), month |-> Num(1)],
                Undef, NoObj) :
          t \in {"elk_peak_monthly_revenue", "quarter_goal"}}
  \cup {WriteOp(o, [year |-> Num(2025), month |-> Num(1)], Undef, NoObj) :
          o \in {"deleteMonthlyMRR", "deleteMonthlyEngagements"}}

AdminWriteRequests ==
  {Req("admin-write", Site, "", b, FALSE, FALSE) : b \in AdminWriteBodies}
  \cup {Req("admin-write", h, "", WriteOp("createQuarterGoal", GoalData, Undef, NoObj),
            FALSE, FALSE) : h \in {Foreign, RefererOnly, Preflight}}
  \cup {Req("admin-write", Site, pw,
            WriteOp("updateMetricOverride", Override("elkPeak", "totalRevenue", Num(5)),
                    Undef, NoObj), FALSE, df) :
          pw \in {"pw1", "pw2"}, df \in BOOLEAN}
  \cup {Req("admin-write", Site, "", BadJson, FALSE, FALSE),
        Req("admin-write", Put, "",
            WriteOp("deleteQuarterGoal", NoObj, Str("g1"), NoObj), FALSE, FALSE)}

PasswordBody(v) == [B0 EXCEPT !.password = v]

AuthVerifyRequests ==
  {Req("auth-verify", Site, "", PasswordBody(v), FALSE, FALSE) :
     v \in {Str("pw1"), Str("pw2"), Str("pw3"), Str(""), Num(1), Undef}}
  \cup {Req("auth-verify", h, "", PasswordBody(Str("pw1")), FALSE, FALSE) :
          h \in {Foreign, RefererOnly, Preflight, OtherIp}}
  \cup {Req("auth-verify", Site, "", PasswordBody(Str(pw)), TRUE, FALSE) :
          pw \in {"pw1", "pw2"}}
  \cup {Req("auth-verify", Site, "", BadJson, FALSE, FALSE)}

PublicMetricsRequests ==
  Probes("public-metrics", B0)
  \cup {Req("public-metrics", h, "pw1", B0, FALSE, FALSE) : h \in {Site, OtherAgent}}

Contact(name, email, message, company) ==
  [B0 EXCEPT !.data = [name |-> name, email |-> email, message |-> message,
                       company |-> company]]

ContactSubmitRequests ==
  {Req("contact-submit", Site, "", b, FALSE, FALSE) :
     b \in {Contact(Str(" Ann "), Str("A@B.CO"), Str("hello"), Undef),
            Contact(Str("Ann"), Str("a@b.co"), Str("hello"), Str("Acme")),
            Contact(Str("   "), Str("a@b.co"), Str("hello"), Null),
            Contact(Str("L101"), Str("a@b.co"), Str("hello"), Null),
            Contact(Str("Ann"), Str("not-an-email"), Str("hello"), Null),
            Contact(Str("Ann"), Str("a@b.co"), Str("L1001"), Null),
            Contact(Str("Ann"), Str("a@b.co"), Str("L999"), Null),
            Contact(Str("Ann"), Str("a@b.co"), Str(""), Null),
            Contact(Str("Ann"), Str("a@b.co"), Str("hello"), Str("L101")),
            Contact(Str("Ann"), Str("a@b.co"), Str("hello"), Num(1)),
            Contact(Num(1), Str("a@b.co"), Str("hello"), Null),
            B0, BadJson}}
  \cup {Req("contact-submit", h, "",
            Contact(Str("Ann"), Str("a@b.co"), Str("hello"), Undef), FALSE, df) :
          h \in {Foreign, RefererOnly, Preflight, OtherIp, Site}, df \in BOOLEAN}
  \cup {Req("contact-submit", Put, "",
            Contact(Str("Ann"), Str("a@b.co"), Str("hello"), Undef), FALSE, FALSE)}

AdminContactsBodies ==
  {Op("list", NoObj), Op("list", [status |-> Str("new")]),
   Op("list", [status |-> Str("read")]),
   Op("updateStatus", [id |-> Str("u1"), status |-> Str("read")]),
   Op("updateStatus", [id |-> Str("u1"), status |-> Str("spam")]),
   Op("updateStatus", [id |-> Str("u1")]),
   Op("updateStatus", NoObj),
   Op("addNotes", [id |-> Str("u1"), notes |-> Str("called")]),
   Op("addNotes", [id |-> Str("u1")]),
   Op("delete", [id |-> Str("u1")]),
   Op("delete", EmptyObj),
   Op("purge", NoObj)}

\* the requests one behaviour of the gateway draws from
Requests(ep) ==
  CASE ep = "admin-manage-data" ->
         Admin(ep, ManageDataBodies)
         \cup Probes(ep, TableOp("create", "quarter_goal", GoalData, Undef, NoObj))
         \cup {Req(ep, Put, "pw1",
                   TableOp("create", "quarter_goal", GoalData, Undef, NoObj),
                   FALSE, FALSE)}
    [] ep = "admin-update-goal" ->
         Admin(ep, UpdateGoalBodies) \cup Probes(ep, Op("create", GoalData))
    [] ep = "admin-log-metrics" ->
         Admin(ep, LogMetricsBodies)
         \cup Probes(ep, Log("logElkPeakMRR", Num(2025), Num(1), [mrr |-> Num(100)]))
    [] ep = "admin-contacts" ->
         Admin(ep, AdminContactsBodies) \cup Probes(ep, Op("list", NoObj))
    [] ep = "admin-write" -> AdminWriteRequests
    [] ep = "auth-verify" -> AuthVerifyRequests
    [] ep = "public-metrics" -> PublicMetricsRequests
    [] OTHER -> ContactSubmitRequests

\* the requests that exercise one handler's rate limiter: callers that differ
\* in address (in user agent for public-metrics) and, where there is one key
\* per address, one bad origin and one missing credential
RateRequests(ep) ==
  LET body == CASE ep = "admin-manage-data" ->
                     TableOp("list", "quarter_goal", NoObj, Undef, NoObj)
                [] ep = "admin-update-goal" -> Op("archive", GoalData)
                [] ep = "admin-log-metrics" ->
                     Log("logElkPeakMRR", Num(2025), Num(13), [mrr |-> Num(1)])
                [] ep = "admin-contacts" -> Op("list", NoObj)
                [] ep = "auth-verify" -> PasswordBody(Str("pw2"))
                [] ep = "contact-submit" ->
                     Contact(Str("Ann"), Str("not-an-email"), Str("hello"), Null)
                [] OTHER -> B0
      callers == CASE ep \in {"auth-verify", "contact-submit"} -> {Site, OtherIp}
                   [] ep = "public-metrics" -> {Site, OtherAgent}
                   [] OTHER -> {Site}
  IN  {Req(ep, h, "pw1", body, FALSE, FALSE) : h \in callers}
      \cup {Req(ep, ForeignPreflight, "", body, FALSE, FALSE)}
      \cup (IF ep = "public-metrics" THEN {}
            ELSE {Req(ep, Foreign, "pw1", body, FALSE, FALSE),
                  Req(ep, Site, "", body, FALSE, FALSE)})

-----------------------------------------------------------------------------
(* Initial states: the deployment (credential rows, environment) and the store *)

CredRow(name, password, salt, is_admin) ==
  [name |-> name, password_hash |-> HashOf(password, salt), is_admin |-> is_admin]

\* one administrator
OwnerOnly == << CredRow(Str("Owner"), "pw1", 1, TRUE) >>

\* a non-admin row, two admin rows whose stored hash is malformed, one admin
Mixed == << CredRow(Str("Staff"), "pw2", 2, FALSE),
            [name |-> Null, password_hash |-> <<100000, 3>>, is_admin |-> TRUE],
            [name |-> Null, password_hash |-> <<-1, 3, Pbkdf2("pw2", 3)>>,
             is_admin |-> TRUE],
            CredRow(Null, "pw3", 4, TRUE) >>

Deployments ==
  {[creds |-> OwnerOnly, allowedOrigins |-> <<"elkpeak.com">>,
    allowedDomains |-> <<"elkpeak.com">>, configOk |-> TRUE],
   [creds |-> Mixed, allowedOrigins |-> <<"elkpeak.com">>,
    allowedDomains |-> <<>>, configOk |-> TRUE],
   [creds |-> <<>>, allowedOrigins |-> <<>>,
    allowedDomains |-> <<"elkpeak.com">>, configOk |-> TRUE],
   [creds |-> OwnerOnly, allowedOrigins |-> <<"elkpeak.com">>,
    allowedDomains |-> <<"elkpeak.com">>, configOk |-> FALSE]}

Row(table, id, data) == NewRow(table, Merge(data, [id |-> Str(id)]), 1)

\* a store holding goals of three quarters (two in one), monthly logs, a client, an override
SeededDb ==
  [EmptyDb EXCEPT
     !["quarter_goal"] =
        {Row("quarter_goal", "g1", GoalData),
         Row("quarter_goal", "g2",
             [GoalData EXCEPT !["quarter"] = Num(2),
                              !["metric_type"] = Str("elk_peak_mrr")]),
         Row("quarter_goal", "g3", [GoalData EXCEPT !["year"] = Num(2026)]),
         Row("quarter_goal", "g4", [GoalData EXCEPT !["name"] = Str("Goal D")])},
     !["elk_peak_monthly_mrr"] =
        {Row("elk_peak_monthly_mrr", "m1",
             [year |-> Num(2025), month |-> Num(1), mrr |-> Num(70)])},
     !["elk_peak_monthly_revenue"] =
        {Row("elk_peak_monthly_revenue", "r1",
             [year |-> Num(2025), month |-> Num(2), revenue |-> Frac(20)]),
         Row("elk_peak_monthly_revenue", "r2",
             [year |-> Num(2024), month |-> Num(12), revenue |-> Num(3)])},
     !["elk_peak_clients"] =
        {Row("elk_peak_clients", "c1",
             [name |-> Str("Acme"), monthly_revenue |-> Num(50)])},
     !["business_metrics_overrides"] =
        {Row("business_metrics_overrides", "o1",
             [company |-> Str("runtimePM"), metric_key |-> Str("activeUsers"),
              value |-> Num(9)])}]

NoReq == Req("none", Site, "", B0, FALSE, FALSE)
NoResp == [status |-> 0, body |-> [text |-> ""], passed |-> {}, queries |-> {}]
NoAdmitted == [byKey |-> NoLimiter, byIp |-> NoLimiter]
Clients == {1, 2}
\* a dashboard client between calls
Idle == [at |-> "idle", company |-> "", metricKey |-> "", value |-> Null,
         existing |-> {}]

\* MetricsDashboard before it is rendered: useState initial values
NoDash == [isAdmin |-> FALSE, mounted |-> FALSE, quarter |-> <<1, 2025>>,
           metrics |-> EmptyObj, isLoading |-> TRUE, fetches |-> {},
           quarterGoals |-> {}, started |-> 0, saved |-> 0]

InitWith(f, stores, deployments) ==
  /\ focus = f
  /\ db \in stores
  /\ nextId = 1
  /\ \E dep \in deployments :
       /\ creds = dep.creds
       /\ allowedOrigins = dep.allowedOrigins
       /\ allowedDomains = dep.allowedDomains
       /\ configOk = dep.configOk
  /\ rateLimits = [ep \in RateLimited |-> NoLimiter]
  /\ now = 0
  /\ nreq = 0
  /\ lastReq = NoReq
  /\ lastResp = NoResp
  /\ prevRl = rateLimits
  /\ prevDb = db
  /\ authLog = {}
  /\ admitted = NoAdmitted
  /\ cl = [pc |-> [c \in Clients |-> Idle], log |-> <<>>]
  /\ adminPassword = [c \in Clients |-> ""]
  /\ dash = NoDash

Init == InitWith("all", {EmptyDb, SeededDb}, Deployments)

-----------------------------------------------------------------------------
(* Actions: one per edge function *)

\* the requests admitted by the limiter, counted per key and per caller address
\* in the window opened by the first of them
Count(m, k, window) ==
  IF k \in DOMAIN m /\ now <= m[k].resetTime
  THEN [m EXCEPT ![k].count = @ + 1]
  ELSE [x \in DOMAIN m \cup {k} |->
          IF x = k THEN [count |-> 1, resetTime |-> now + window] ELSE m[x]]

Admit(req) ==
  [byKey |-> Count(admitted.byKey, getRateLimitKey(req), windowMs(req.ep)),
   byIp |-> Count(admitted.byIp, CallerIp(req), windowMs(req.ep))]

Respond(req, out) ==
  /\ out.used = 0 \/ nextId <= MaxIds
  /\ db' = out.db
  /\ nextId' = nextId + out.used
  /\ rateLimits' = IF req.ep \in RateLimited
                   THEN [rateLimits EXCEPT ![req.ep] = out.rl] ELSE rateLimits
  /\ lastReq' = req
  /\ lastResp' = [status |-> out.status, body |-> out.body, passed |-> out.passed,
                  queries |-> out.queries]
  /\ prevRl' = rateLimits
  /\ prevDb' = db
  /\ authLog' = IF req.ep = "auth-verify" /\ "parse" \in out.passed
                THEN authLog \cup {[password |-> req.body.password,
                                    lookupFails |-> req.credFails,
                                    status |-> out.status, body |-> out.body]}
                ELSE authLog
  /\ admitted' = IF focus # "all" /\ "rate" \in out.passed THEN Admit(req)
                 ELSE admitted
  /\ UNCHANGED <<creds, allowedOrigins, allowedDomains, configOk, now, focus>>

\* the edge function deployed under the name of the endpoint
Handle(req) ==
  CASE req.ep = "admin-manage-data" -> AdminManageDataHandler(req)
    [] req.ep = "admin-update-goal" -> AdminUpdateGoalHandler(req)
    [] req.ep = "admin-log-metrics" -> AdminLogMetricsHandler(req)
    [] req.ep = "admin-contacts" -> AdminContactsHandler(req)
    [] req.ep = "admin-write" -> AdminWriteHandler(req)
    [] req.ep = "auth-verify" -> AuthVerifyHandler(req)
    [] req.ep = "public-metrics" -> PublicMetricsHandler(req)
    [] req.ep = "contact-submit" -> ContactSubmitHandler(req)

\* a request arriving from anywhere
Serve(ep) ==
  /\ focus \in {"all", ep}
  /\ focus = "all" => nreq < MaxReq
  /\ \E req \in (IF focus = "all" THEN Requests(ep) ELSE RateRequests(ep)) :
       /\ (/\ focus # "all"
           /\ req.xff # Site.xff \/ req.ua # Site.ua
           /\ getRateLimitKey(req) \in DOMAIN rateLimits[ep])
          => rateLimits[ep][getRateLimitKey(req)].count < MaxOther
       /\ Respond(req, Handle(req))
  /\ nreq' = IF focus = "all" THEN nreq + 1 ELSE nreq
  /\ UNCHANGED <<cl, adminPassword, dash>>

AdminManageData == Serve("admin-manage-data")
AdminUpdateGoal == Serve("admin-update-goal")
AdminLogMetrics == Serve("admin-log-metrics")
AdminContacts == Serve("admin-contacts")
AdminWrite == Serve("admin-write")
AuthVerify == Serve("auth-verify")
PublicMetrics == Serve("public-metrics")
ContactSubmit == Serve("contact-submit")

\* time passes: one millisecond, or a whole window of the observed limiter
Tick ==
  /\ focus # "all"
  /\ (now \div windowMs(focus)) + (now % windowMs(focus)) < MaxTicks
  /\ \E dt \in {1, windowMs(focus)} : now' = now + dt
  /\ UNCHANGED <<db, nextId, creds, allowedOrigins, allowedDomains, configOk,
                 rateLimits, focus, nreq, lastReq, lastResp, prevRl, prevDb,
                 authLog, admitted, cl, adminPassword, dash>>

Next ==
  \/ AdminManageData
  \/ AdminUpdateGoal
  \/ AdminLogMetrics
  \/ AdminContacts
  \/ AdminWrite
  \/ AuthVerify
  \/ PublicMetrics
  \/ ContactSubmit

Spec == Init /\ [][Next]_vars

\* the rate limiter of one edge function, under load and over time
InitRate ==
  \E ep \in RateLimited :
    InitWith(ep, {EmptyDb}, {dep \in Deployments : dep.creds = OwnerOnly /\ dep.configOk})

NextRate ==
  \/ AdminManageData
  \/ AdminUpdateGoal
  \/ AdminLogMetrics
  \/ AdminContacts
  \/ AuthVerify
  \/ PublicMetrics
  \/ ContactSubmit
  \/ Tick

SpecRate == InitRate /\ [][NextRate]_vars

\* The limiters of contact-submit and auth-verify while the clock keeps
\* running: requests arrive during the first windows, and Date.now() goes on
\* until every window that was opened has ended.
Unexpired == \E k \in DOMAIN rateLimits[focus] : now <= rateLimits[focus][k].resetTime

InitWindow ==
  \E ep \in {"contact-submit", "auth-verify"} :
    InitWith(ep, {EmptyDb}, {dep \in Deployments : dep.creds = OwnerOnly /\ dep.configOk})

Arrive ==
  /\ now \div windowMs(focus) <= MaxWindows
  /\ \/ ContactSubmit
     \/ AuthVerify

\* Date.now() moves on: by a millisecond at the start of a window, or by a
\* whole window
Elapse ==
  /\ focus # "all"
  /\ now \div windowMs(focus) <= MaxWindows \/ Unexpired
  /\ \E dt \in {1, windowMs(focus)} :
       /\ dt = 1 => now % windowMs(focus) = 0
       /\ now' = now + dt
  /\ UNCHANGED <<db, nextId, creds, allowedOrigins, allowedDomains, configOk,
                 rateLimits, focus, nreq, lastReq, lastResp, prevRl, prevDb,
                 authLog, admitted, cl, adminPassword, dash>>

NextWindow ==
  \/ Arrive
  \/ Elapse

\* time advances: the clock is never held back for ever
SpecWindow == InitWindow /\ [][NextWindow]_vars /\ WF_vars(Elapse)

\* One limiter and the keys of its map: a caller with an address and two
\* callers without one, within one window.
KeyRequests(ep) ==
  {Req(ep, h, "pw1", (CHOOSE r \in RateRequests(ep) : TRUE).body, FALSE, FALSE) :
     h \in {Site, Unaddressed, UnaddressedAgent}}

InitKeys ==
  \E ep \in {"admin-manage-data", "contact-submit", "public-metrics"} :
    InitWith(ep, {EmptyDb}, {dep \in Deployments : dep.creds = OwnerOnly /\ dep.configOk})

ServeKeys ==
  /\ \E req \in KeyRequests(focus) :
       /\ (req.xff = "" /\ getRateLimitKey(req) \in DOMAIN rateLimits[focus])
            => rateLimits[focus][getRateLimitKey(req)].count < MaxOther
       /\ Respond(req, Handle(req))
  /\ UNCHANGED <<nreq, cl, adminPassword, dash>>

NextKeys == ServeKeys

SpecKeys == InitKeys /\ [][NextKeys]_vars

-----------------------------------------------------------------------------
(* The dashboard client, api-secure.js.  Every await is one step. *)

\* a client that sends admin calls whether or not it holds a password
callEdgeFunction_AlwaysSends(c, functionName, body, requiresAdmin) ==
  LET req == Req(functionName, Site,
                 IF requiresAdmin THEN adminPassword[c] ELSE "", body, FALSE, FALSE)
      out == Handle(req)
  IN  [sent |-> TRUE, ok |-> out.status >= 200 /\ out.status <= 299,
       result |-> out.body, req |-> req, out |-> out]

\* callEdgeFunction: [sent, ok, result, req, out]; nothing is sent when an
\* admin call is made without a password in memory
callEdgeFunction(c, functionName, body, requiresAdmin) ==
  LET req == Req(functionName, Site,
                 IF requiresAdmin THEN adminPassword[c] ELSE "", body, FALSE, FALSE)
      Returned(out) ==
        [sent |-> TRUE, ok |-> out.status >= 200 /\ out.status <= 299,
         result |-> out.body, req |-> req, out |-> out]
  IN  IF requiresAdmin /\ adminPassword[c] = ""
      THEN [sent |-> FALSE, ok |-> FALSE,
            result |-> Err("Admin authentication required"), req |-> req,
            out |-> NoResp]
      ELSE Returned(Handle(req))

\* what a call does to the server
Fetch(call) ==
  IF call.sent THEN Respond(call.req, call.out)
  ELSE UNCHANGED <<db, nextId, creds, allowedOrigins, allowedDomains, configOk,
                   rateLimits, now, focus, lastReq, lastResp, prevRl, prevDb,
                   authLog, admitted>>

\* the call of client c returns or throws
Settle(c, op, company, metricKey, value, call) ==
  cl' = [pc |-> [cl.pc EXCEPT ![c] = Idle],
         log |-> Append(cl.log, [c |-> c, op |-> op, company |-> company,
                                 metricKey |-> metricKey, value |-> value,
                                 ok |-> call.ok, result |-> call.result])]

Overridable == {<<"elkPeak", "totalRevenue">>, <<"runtimePM", "activeUsers">>}
\* the value client c writes
OverrideValue(c) == Num(4 + c)

OverrideFilters(company, metricKey) ==
  [company |-> Str(company), metric_key |-> Str(metricKey)]

ClientStep(c) ==
  /\ focus = "client"
  /\ Len(cl.log) < MaxCalls
  /\ UNCHANGED <<nreq, dash>>

\* verifyPassword(password)
VerifyPassword(c) ==
  /\ ClientStep(c)
  /\ cl.pc[c].at = "idle"
  /\ \E password \in {"pw1", "pw2"} :
       \E call \in {callEdgeFunction(c, "auth-verify", PasswordBody(Str(password)),
                                     FALSE)} :
         /\ Fetch(call)
         /\ Settle(c, "verifyPassword", "", "", Str(password), call)
         /\ adminPassword' =
              IF call.ok /\ call.result.valid
              THEN [adminPassword EXCEPT ![c] = password] ELSE adminPassword

\* clearAdminPassword()
ClearAdminPassword(c) ==
  /\ ClientStep(c)
  /\ cl.pc[c].at = "idle"
  /\ adminPassword' = [adminPassword EXCEPT ![c] = ""]
  /\ cl' = [cl EXCEPT !.log = Append(@, [c |-> c, op |-> "clearAdminPassword",
                                         company |-> "", metricKey |-> "",
                                         value |-> Null, ok |-> TRUE,
                                         result |-> [text |-> ""]])]
  /\ UNCHANGED <<db, nextId, creds, allowedOrigins, allowedDomains, configOk,
                 rateLimits, now, focus, lastReq, lastResp, prevRl, prevDb,
                 authLog, admitted>>

\* getMetrics()
GetMetrics(c) ==
  /\ ClientStep(c)
  /\ cl.pc[c].at = "idle"
  /\ \E call \in {callEdgeFunction(c, "public-metrics", B0, TRUE)} :
       Fetch(call) /\ Settle(c, "getMetrics", "", "", Null, call)
  /\ UNCHANGED adminPassword

\* the request that follows the listing in updateMetricOverride
OverrideWrite(me) ==
  IF me.existing # {}
  THEN TableOp("update", "business_metrics_overrides",
               [value |-> me.value, updated_at |-> Num(now)],
               (CHOOSE r \in me.existing : TRUE)["id"], NoObj)
  ELSE TableOp("create", "business_metrics_overrides",
               [company |-> Str(me.company), metric_key |-> Str(me.metricKey),
                value |-> me.value], Undef, NoObj)

\* updateMetricOverride(company, metricKey, value): list, then update or create
UpdateMetricOverride(c) ==
  /\ ClientStep(c)
  /\ cl.pc[c].at \in {"idle", "updateMetricOverride"}
  /\ UNCHANGED adminPassword
  /\ IF cl.pc[c].at = "idle"
     THEN \E mk \in Overridable, value \in {OverrideValue(c)} :
            \E existing \in
                 {callEdgeFunction(c, "admin-manage-data",
                                   TableOp("list", "business_metrics_overrides", NoObj,
                                           Undef, OverrideFilters(mk[1], mk[2])),
                                   TRUE)} :
              /\ Fetch(existing)
              /\ IF existing.ok
                 THEN cl' = [cl EXCEPT !.pc[c] =
                               [at |-> "updateMetricOverride", company |-> mk[1],
                                metricKey |-> mk[2], value |-> value,
                                existing |-> existing.result.rows]]
                 ELSE Settle(c, "updateMetricOverride", mk[1], mk[2], value, existing)
     ELSE \E me \in {cl.pc[c]} :
            \E call \in {callEdgeFunction(c, "admin-manage-data", OverrideWrite(me),
                                          TRUE)} :
              /\ Fetch(call)
              /\ Settle(c, "updateMetricOverride", me.company, me.metricKey,
                        me.value, call)

\* deleteMetricOverride(company, metricKey): list, then delete when there is one
DeleteMetricOverride(c) ==
  /\ ClientStep(c)
  /\ cl.pc[c].at \in {"idle", "deleteMetricOverride"}
  /\ UNCHANGED adminPassword
  /\ IF cl.pc[c].at = "idle"
     THEN \E mk \in Overridable :
            \E existing \in
                 {callEdgeFunction(c, "admin-manage-data",
                                   TableOp("list", "business_metrics_overrides", NoObj,
                                           Undef, OverrideFilters(mk[1], mk[2])),
                                   TRUE)} :
              /\ Fetch(existing)
              /\ IF existing.ok /\ existing.result.rows # {}
                 THEN cl' = [cl EXCEPT !.pc[c] =
                               [at |-> "deleteMetricOverride", company |-> mk[1],
                                metricKey |-> mk[2], value |-> Null,
                                existing |-> existing.result.rows]]
                 ELSE Settle(c, "deleteMetricOverride", mk[1], mk[2], Null,
                             IF existing.ok
                             THEN [existing EXCEPT !.result = [success |-> TRUE]]
                             ELSE existing)
     ELSE \E me \in {cl.pc[c]} :
            \E call \in
                 {callEdgeFunction(c, "admin-manage-data",
                                   TableOp("delete", "business_metrics_overrides",
                                           NoObj,
                                           (CHOOSE r \in me.existing : TRUE)["id"],
                                           NoObj),
                                   TRUE)} :
              /\ Fetch(call)
              /\ Settle(c, "deleteMetricOverride", me.company, me.metricKey, Null, call)

\* listQuarterGoals(quarter, year)
ListQuarterGoals(c) ==
  /\ ClientStep(c)
  /\ cl.pc[c].at = "idle"
  /\ UNCHANGED adminPassword
  /\ \E qy \in {<<1, 2025>>, <<2, 2025>>, <<3, 2025>>} :
       \E call \in
            {callEdgeFunction(c, "admin-manage-data",
                              TableOp("list", "quarter_goal", NoObj, Undef,
                                      [quarter |-> Num(qy[1]), year |-> Num(qy[2])]),
                              TRUE)} :
         /\ Fetch(call)
         /\ Settle(c, "listQuarterGoals", "", "", Obj(call.req.body.filters), call)

InitClient ==
  InitWith("client", {EmptyDb, SeededDb},
           {dep \in Deployments : dep.creds = OwnerOnly /\ dep.configOk})

NextClient ==
  \/ \E c \in Clients : ListQuarterGoals(c)
  \/ \E c \in Clients : VerifyPassword(c)
  \/ \E c \in Clients : ClearAdminPassword(c)
  \/ \E c \in Clients : GetMetrics(c)
  \/ \E c \in Clients : UpdateMetricOverride(c)
  \/ \E c \in Clients : DeleteMetricOverride(c)

SpecClient == InitClient /\ [][NextClient]_vars

-----------------------------------------------------------------------------
(* The metrics dashboard, MetricsDashboard.  A request is sent, the edge
   function serves it, and the response arrives: three steps. *)

\* const { quarter, year } = getCurrentQuarter(), under the clocks explored
Quarters == {<<1, 2025>>, <<2, 2025>>}
getCurrentQuarter == dash.quarter

\* the metric an auto-calculated goal shows
GoalMetric(metric_type) ==
  CASE metric_type = "elk_peak_mrr" -> <<"elkPeak", "monthlyRecurringRevenue">>
    [] metric_type = "life_organizer_revenue" -> <<"lifeOrganizer", "totalRevenue">>
    [] metric_type = "friendly_tech_revenue" -> <<"friendlyTech", "totalRevenue">>
    [] metric_type = "runtime_pm_users" -> <<"runtimePM", "activeUsers">>
    [] metric_type = "runtime_pm_mrr" -> <<"runtimePM", "monthlyRecurringRevenue">>
    [] OTHER -> <<>>

AutoCalculated(goal) == GoalMetric(goal["metric_type"].s) # <<>>

\* fetchQuarterGoals: the currentValue of one goal under the metrics of the
\* render that started the fetch
CurrentValue(goal, metrics) ==
  IF AutoCalculated(goal)
  THEN OrElse(Get(metrics, GoalMetric(goal["metric_type"].s)), Num(0))
  ELSE OrElse(goal["current_value"], Num(0))

\* fetchQuarterGoals, after its await: the goals to display
GoalsWithProgress(rows, metrics) ==
  {Merge(goal, [currentValue |-> CurrentValue(goal, metrics)]) : goal \in rows}

\* a request of the component in flight, with the metrics its closure holds
InFlight(kind, body, metrics) ==
  [n |-> dash.started + 1, kind |-> kind, body |-> body, metrics |-> metrics,
   stage |-> "sent", ok |-> FALSE, result |-> NoObj]

\* fetchQuarterGoals, up to its await
fetchQuarterGoals(n, qy, metrics) ==
  [InFlight("goals",
            TableOp("list", "quarter_goal", NoObj, Undef,
                    [quarter |-> Num(qy[1]), year |-> Num(qy[2])]),
            metrics) EXCEPT !.n = n]

\* fetchMetrics, up to its await
fetchMetrics(n) == [InFlight("metrics", B0, EmptyObj) EXCEPT !.n = n]

FunctionOf(kind) ==
  CASE kind = "metrics" -> "public-metrics"
    [] kind = "goals" -> "admin-manage-data"
    [] OTHER -> "admin-update-goal"

\* const progress = Math.min((goal.currentValue / goal.target_value) * 100, 100)
\* as a fraction num/den with den > 0, or NaN, or -Infinity
progress(goal) ==
  LET c == Halves(goal["currentValue"])
      t == Halves(goal["target_value"])
      num == IF t < 0 THEN 0 - c * 100 ELSE c * 100
      den == IF t < 0 THEN 0 - t ELSE t
  IN  IF t = 0
      THEN IF c = 0 THEN [is |-> "NaN", num |-> 0, den |-> 1]
           ELSE IF c > 0 THEN [is |-> "number", num |-> 100, den |-> 1]
           ELSE [is |-> "-Infinity", num |-> 0, den |-> 1]
      ELSE IF num > 100 * den THEN [is |-> "number", num |-> 100, den |-> 1]
      ELSE [is |-> "number", num |-> num, den |-> den]

\* const isComplete = goal.currentValue >= goal.target_value
isComplete(goal) == Halves(goal["currentValue"]) >= Halves(goal["target_value"])

DashStep ==
  /\ focus = "dashboard"
  /\ UNCHANGED <<nreq, cl>>

Untouched ==
  UNCHANGED <<db, nextId, creds, allowedOrigins, allowedDomains, configOk,
              rateLimits, now, focus, lastReq, lastResp, prevRl, prevDb,
              authLog, admitted>>

\* the login form: verifyPassword, and isAdmin once it succeeds
DashLogin ==
  /\ DashStep
  /\ ~dash.isAdmin
  /\ \E call \in {callEdgeFunction(1, "auth-verify", PasswordBody(Str("pw1")), FALSE)} :
       /\ Fetch(call)
       /\ adminPassword' = IF call.ok /\ call.result.valid
                           THEN [adminPassword EXCEPT ![1] = "pw1"]
                           ELSE adminPassword
       /\ dash' = [dash EXCEPT !.isAdmin = call.ok /\ call.result.valid]

\* useEffect(..., [isAdmin]): fetchMetrics(); fetchQuarterGoals()
DashMount ==
  /\ DashStep
  /\ dash.isAdmin /\ ~dash.mounted
  /\ \E qy \in Quarters :
       dash' = [dash EXCEPT !.mounted = TRUE, !.isLoading = TRUE, !.quarter = qy,
                            !.started = 2,
                            !.fetches = {fetchMetrics(1),
                                         fetchQuarterGoals(2, qy, dash.metrics)}]
  /\ Untouched
  /\ UNCHANGED adminPassword

\* the edge function serves one request of the component
DashServe ==
  /\ DashStep
  /\ \E f \in dash.fetches :
       /\ f.stage = "sent"
       /\ \E call \in {callEdgeFunction(1, FunctionOf(f.kind), f.body, TRUE)} :
            /\ Fetch(call)
            /\ dash' = [dash EXCEPT
                          !.fetches = (@ \ {f}) \cup
                             {[f EXCEPT !.stage = "answered", !.ok = call.ok,
                                        !.result = call.result]}]
  /\ UNCHANGED adminPassword

\* fetchMetrics after its await, and the effect on [metrics, isLoading]
DashMetricsArrive ==
  /\ DashStep
  /\ \E f \in dash.fetches :
       /\ f.kind = "metrics" /\ f.stage = "answered"
       /\ LET loaded == IF f.ok THEN f.result.metrics ELSE dash.metrics
          IN  dash' = [dash EXCEPT
                         !.metrics = loaded, !.isLoading = FALSE,
                         !.started = @ + 1,
                         !.fetches = (@ \ {f}) \cup
                            {fetchQuarterGoals(dash.started + 1, getCurrentQuarter, loaded)}]
  /\ Untouched
  /\ UNCHANGED adminPassword

\* fetchQuarterGoals after its await: setQuarterGoals, or the error is logged
DashGoalsArrive ==
  /\ DashStep
  /\ \E f \in dash.fetches :
       /\ f.kind = "goals" /\ f.stage = "answered"
       /\ dash' = [dash EXCEPT
                     !.fetches = @ \ {f},
                     !.quarterGoals =
                        IF f.ok THEN GoalsWithProgress(f.result.rows, f.metrics)
                        ELSE @]
  /\ Untouched
  /\ UNCHANGED adminPassword

\* the values typed into the goal form
EditValues ==
  {[goalName |-> "Goal B", targetValue |-> t, currentValue |-> c, metricType |-> m] :
     t \in {Num(0), Num(10)}, c \in {Num(0), Num(20)},
     m \in {"custom", "elk_peak_mrr"}}

\* handleSaveGoal with no goal being edited, up to its await
DashSaveGoal ==
  /\ DashStep
  /\ dash.mounted /\ dash.saved < MaxSaves
  /\ \E editValues \in EditValues :
       dash' = [dash EXCEPT
                  !.saved = @ + 1, !.started = @ + 1,
                  !.fetches = @ \cup
                     {InFlight("save",
                           Op("create",
                              [name |-> Str(editValues.goalName),
                               target_value |-> editValues.targetValue,
                               current_value |-> editValues.currentValue,
                               quarter |-> Num(getCurrentQuarter[1]),
                               year |-> Num(getCurrentQuarter[2]),
                               metric_type |-> Str(editValues.metricType),
                               order |-> Num(0)]),
                           dash.metrics)}]
  /\ Untouched
  /\ UNCHANGED adminPassword

\* handleSaveGoal after its await: fetchQuarterGoals(), or the error is shown
DashSaveArrive ==
  /\ DashStep
  /\ \E f \in dash.fetches :
       /\ f.kind = "save" /\ f.stage = "answered"
       /\ dash' = [dash EXCEPT
                     !.started = IF f.ok THEN @ + 1 ELSE @,
                     !.fetches =
                        IF f.ok
                        THEN (@ \ {f}) \cup
                             {fetchQuarterGoals(dash.started + 1, getCurrentQuarter,
                                                f.metrics)}
                        ELSE @ \ {f}]
  /\ Untouched
  /\ UNCHANGED adminPassword

InitDashboard ==
  InitWith("dashboard", {EmptyDb, SeededDb},
           {dep \in Deployments : dep.creds = OwnerOnly /\ dep.configOk})

NextDashboard ==
  \/ DashLogin
  \/ DashMount
  \/ DashServe
  \/ DashMetricsArrive
  \/ DashGoalsArrive
  \/ DashSaveGoal
  \/ DashSaveArrive

SpecDashboard == InitDashboard /\ [][NextDashboard]_vars

-----------------------------------------------------------------------------
(* The aggregator over stores of every shape, with overrides and monthly
   logs written through admin-write *)

\* clients and subscriptions, active and not, and no monthly log
LiveOnlyDb ==
  [EmptyDb EXCEPT
     !["elk_peak_clients"] =
        {Row("elk_peak_clients", "c1",
             [name |-> Str("Acme"), monthly_revenue |-> Num(50)]),
         Row("elk_peak_clients", "c2",
             [name |-> Str("Gone"), status |-> Str("inactive"),
              monthly_revenue |-> Num(30)])},
     !["runtime_pm_subscriptions"] =
        {Row("runtime_pm_subscriptions", "s1",
             [start_date |-> Str("2025-01-01"), monthly_amount |-> Num(8)]),
         Row("runtime_pm_subscriptions", "s2",
             [start_date |-> Str("2025-01-01"), status |-> Str("cancelled"),
              monthly_amount |-> Num(4)])}]

\* the same with monthly logs, the latest of which record nothing
LoggedZeroDb ==
  [LiveOnlyDb EXCEPT
     !["elk_peak_monthly_mrr"] =
        {Row("elk_peak_monthly_mrr", "m1",
             [year |-> Num(2025), month |-> Num(1), mrr |-> Num(70)]),
         Row("elk_peak_monthly_mrr", "m2",
             [year |-> Num(2025), month |-> Num(2), mrr |-> Num(0)])},
     !["runtime_pm_monthly_metrics"] =
        {Row("runtime_pm_monthly_metrics", "p1",
             [year |-> Num(2024), month |-> Num(12), revenue |-> Num(6),
              active_users |-> Num(2), active_subscriptions |-> Num(1)]),
         Row("runtime_pm_monthly_metrics", "p2",
             [year |-> Num(2025), month |-> Num(1), revenue |-> Num(0)])}]

MetricStores == {EmptyDb, SeededDb, LiveOnlyDb, LoggedZeroDb}

\* overrides written: keys the aggregator applies and keys it does not
OverrideWrites ==
  {WriteOp("updateMetricOverride", Override(k[1], k[2], Num(5)), Undef, NoObj) :
     k \in {<<"elkPeak", "totalRevenue">>, <<"runtimePM", "monthlyRecurringRevenue">>,
            <<"elkPeak", "staleKey">>, <<"elkPeak", "monthlyRevenue">>,
            <<"otherCo", "totalRevenue">>}}

LogWrites ==
  {WriteOp("logMonthlyMRR", [year |-> Num(2025), month |-> Num(3), mrr |-> v],
           Undef, NoObj) : v \in {Num(0), Num(90)}}

MetricsStep ==
  /\ focus = "metrics"
  /\ nreq < MaxMetricReq
  /\ nreq' = nreq + 1
  /\ UNCHANGED <<cl, adminPassword, dash>>

ReadMetrics ==
  /\ MetricsStep
  /\ \E req \in {Req("public-metrics", Site, "pw1", B0, FALSE, dbFails) :
                   dbFails \in BOOLEAN} :
       Respond(req, Handle(req))

WriteOverride ==
  /\ MetricsStep
  /\ \E req \in {Req("admin-write", Site, "", b, FALSE, FALSE) : b \in OverrideWrites} :
       Respond(req, Handle(req))

WriteLog ==
  /\ MetricsStep
  /\ \E req \in {Req("admin-write", Site, "", b, FALSE, FALSE) : b \in LogWrites} :
       Respond(req, Handle(req))

InitMetrics ==
  InitWith("metrics", MetricStores,
           {dep \in Deployments : dep.creds = OwnerOnly /\ dep.configOk})

NextMetrics ==
  \/ ReadMetrics
  \/ WriteOverride
  \/ WriteLog

SpecMetrics == InitMetrics /\ [][NextMetrics]_vars

-----------------------------------------------------------------------------
(* The contact form and its administration, in sequences of requests *)

ContactsStep ==
  /\ focus = "contacts"
  /\ nreq < MaxContactReq
  /\ nreq' = nreq + 1
  /\ UNCHANGED <<cl, adminPassword, dash>>

SubmitContact ==
  /\ ContactsStep
  /\ \E req \in Requests("contact-submit") : Respond(req, Handle(req))

ManageContacts ==
  /\ ContactsStep
  /\ \E req \in Requests("admin-contacts") : Respond(req, Handle(req))

InitContacts ==
  InitWith("contacts", {EmptyDb, SeededDb},
           {dep \in Deployments : dep.creds = OwnerOnly /\ dep.configOk})

NextContacts ==
  \/ SubmitContact
  \/ ManageContacts

SpecContacts == InitContacts /\ [][NextContacts]_vars

-----------------------------------------------------------------------------
(* Properties *)

WriteOps == {"insert", "update", "upsert", "delete"}

\* the metrics, goal, override and monthly-log tables
BusinessTables == Tables \ {"contact_submissions"}

\* some credential row with is_admin = true matches the password
SomeAdminMatches(password) ==
  \E i \in 1..Len(creds) :
    creds[i].is_admin /\ verifyPassword(password, creds[i].password_hash)

\* the last request was answered by the handler itself (not a CORS preflight)
Handled == lastReq.ep # "none" /\ lastReq.method # "OPTIONS"

WritesBusinessTable ==
  \E q \in lastResp.queries : q.op \in WriteOps /\ q.table \in BusinessTables

\* the endpoints that write metrics, goal, override or monthly-log tables
WriteEndpoints == {"admin-manage-data", "admin-update-goal", "admin-log-metrics",
                   "admin-write"}

\* C1: no endpoint writes a metrics, goal, override or monthly-log table unless
\* the request carried an x-admin-password that matches an is_admin credential
\* row; on these endpoints a request that got past the origin and configuration
\* guards with the header absent is answered 401, one whose password does not
\* match is answered 403, and in both cases the store is unchanged.
C1_WritesRequireAdminPassword ==
  Handled =>
    /\ WritesBusinessTable => lastReq.pw # "" /\ SomeAdminMatches(lastReq.pw)
    /\ (/\ lastReq.ep \in WriteEndpoints
        /\ lastResp.status \notin {429, 500}
        /\ lastResp.body # Err("Origin not allowed")
        /\ lastResp.body # Err("Domain not allowed"))
       => /\ lastReq.pw = "" => lastResp.status = 401 /\ db = prevDb
          /\ (lastReq.pw # "" /\ ~SomeAdminMatches(lastReq.pw))
               => lastResp.status = 403 /\ db = prevDb

\* the (year, month) and the figures a log request writes
IsLog == /\ Handled
         /\ lastResp.status = 200
         /\ \E q \in lastResp.queries : q.op = "upsert" /\ q.table \in MonthlyTables
LoggedTable == (CHOOSE q \in lastResp.queries : q.op = "upsert").table
LoggedData ==
  IF lastReq.body.operation = "logMonthlyRevenue"
  THEN Merge(lastReq.body.data["revenueData"].o,
             [year |-> lastReq.body.data["year"], month |-> lastReq.body.data["month"]])
  ELSE lastReq.body.data
RowsOf(d, table, year, month) ==
  {r \in d[table] : r["year"] = year /\ r["month"] = month}

\* C2: every monthly-log table holds at most one row per (year, month), and
\* after a log operation the row of its (year, month) carries the values of
\* that write, also when a row for the period was there before.
C2_OneRowPerMonthLastWriteWins ==
  /\ \A t \in MonthlyTables : \A r1, r2 \in db[t] :
       (r1["year"] = r2["year"] /\ r1["month"] = r2["month"]) => r1 = r2
  /\ IsLog =>
       \A r \in RowsOf(db, LoggedTable, LoggedData["year"], LoggedData["month"]) :
         /\ \A f \in Figures(LoggedTable) : r[f] = OrElse(Get(LoggedData, f), Num(0))
         /\ r["notes"] = OrElse(Get(LoggedData, "notes"), Null)

\* a second log for a period, with figures that differ from the stored ones
C2_Witness ==
  /\ IsLog
  /\ \E old \in RowsOf(prevDb, LoggedTable, LoggedData["year"], LoggedData["month"]) :
       /\ old \notin db[LoggedTable]
       /\ Cardinality(RowsOf(db, LoggedTable, old["year"], old["month"])) = 1

\* the calls of one client alone, one straight after the other
Alone(i) == \A j \in 1..Len(cl.log) : cl.log[j].c = cl.log[i].c

\* C3: after updateMetricOverride(company, metric_key, v) has completed the
\* next getMetrics returns v for that metric; after deleteMetricOverride it
\* returns the computed value.
C3_OverrideRoundTrip ==
  \A i \in 1..(Len(cl.log) - 1) :
    LET w == cl.log[i]
        g == cl.log[i + 1]
    IN  (Alone(i) /\ g.op = "getMetrics" /\ g.ok) =>
          /\ w.op = "updateMetricOverride" =>
               g.result.metrics[<<w.company, w.metricKey>>] = w.value
          /\ w.op = "deleteMetricOverride" =>
               g.result.metrics[<<w.company, w.metricKey>>]
                 = Computed(db, <<w.company, w.metricKey>>)

\* the password of an auth-verify request matches an is_admin credential row
Matching(password) == IsString(password) /\ SomeAdminMatches(password.s)

Granted(a) == a.status = 200 /\ a.body = [valid |-> TRUE, isAdmin |-> TRUE,
                                          name |-> a.body.name]

Submitted(a) == IsString(a.password) /\ a.password.s # ""

OriginPasses ==
  IF lastReq.ep = "contact-submit"
  THEN OriginAllowedStrict(lastReq, allowedOrigins)
  ELSE OriginAllowed(lastReq, allowedOrigins)

\* the last request took one unit of its caller's quota
QuotaConsumed ==
  LET key == getRateLimitKey(lastReq)
      m == rateLimits[lastReq.ep]
      m0 == prevRl[lastReq.ep]
  IN  /\ key \in DOMAIN m
      /\ \A k \in DOMAIN m \ {key} : k \in DOMAIN m0 /\ m[k] = m0[k]
      /\ IF key \in DOMAIN m0 /\ m0[key].resetTime = m[key].resetTime
         THEN m[key].count = m0[key].count + 1
         ELSE m[key].count = 1

\* the guards that precede the store operation in each rate-limited handler
GuardsBeforeStore(ep) ==
  CASE ep = "contact-submit" -> {"origin", "rate", "validate"}
    [] ep = "public-metrics" -> {"origin", "rate", "cred"}
    [] OTHER -> {"origin", "rate", "cred", "validate"}

\* C5: in every rate-limited handler a request rejected for its origin leaves
\* the rate-limit map as it was; a request rejected for a missing or wrong
\* credential or for invalid input has taken one unit of quota; a query on a
\* business table is issued only after the origin check, the rate limit, the
\* credential check and the input validation have passed.
C5_GuardOrder ==
  (Handled /\ lastReq.ep \in RateLimited) =>
    /\ ~OriginPasses => /\ lastResp.status = 403
                        /\ rateLimits = prevRl
                        /\ db = prevDb
                        /\ lastResp.queries = {}
    /\ lastResp.status \in {400, 401} => OriginPasses /\ QuotaConsumed /\ db = prevDb
    /\ (lastResp.status = 403 /\ OriginPasses) => QuotaConsumed /\ db = prevDb
    /\ (\E q \in lastResp.queries : q.table # "admin_password") =>
         /\ GuardsBeforeStore(lastReq.ep) \subseteq lastResp.passed
         /\ OriginPasses /\ QuotaConsumed
         /\ "cred" \in GuardsBeforeStore(lastReq.ep) =>
              lastReq.pw # "" /\ SomeAdminMatches(lastReq.pw)
    /\ db # prevDb => \E q \in lastResp.queries : q.table # "admin_password"
    /\ (lastResp.status = 400 /\ lastReq.ep \notin {"auth-verify", "contact-submit"}) =>
         "cred" \in lastResp.passed

\* a caller with quota in use is rejected for its origin: the quota stays
C5_Witness ==
  /\ Handled /\ lastReq.ep \in RateLimited
  /\ ~OriginPasses
  /\ getRateLimitKey(lastReq) \in DOMAIN rateLimits[lastReq.ep]
  /\ rateLimits[lastReq.ep][getRateLimitKey(lastReq)].count = 1

\* C6 as stated: per endpoint and caller IP, at most maxRequests requests are
\* admitted within one window.
C6_LimitPerCallerIp ==
  \A ip \in DOMAIN admitted.byIp : admitted.byIp[ip].count <= maxRequests(focus)

\* C6: per endpoint and rate-limit key (the caller IP; on public-metrics the
\* caller IP with the user agent), at most maxRequests requests are admitted
\* within one window; a request whose key has used its quota in the running
\* window is answered 429, and a 429 reaches neither the credential check nor
\* the store.
C6_LimitPerKey ==
  /\ \A k \in DOMAIN admitted.byKey : admitted.byKey[k].count <= maxRequests(focus)
  /\ (Handled /\ lastReq.ep \in RateLimited) =>
       LET key == getRateLimitKey(lastReq)
           m0 == prevRl[lastReq.ep]
       IN  /\ (/\ OriginPasses
               /\ key \in DOMAIN m0
               /\ m0[key].count >= maxRequests(lastReq.ep)
               /\ now <= m0[key].resetTime) => lastResp.status = 429
           /\ lastResp.status = 429 =>
                /\ "cred" \notin lastResp.passed
                /\ lastResp.queries = {}
                /\ db = prevDb
                /\ rateLimits = prevRl

\* a key has used its whole quota and its next request got 429
C6_Witness ==
  /\ Handled /\ lastResp.status = 429
  /\ admitted.byKey[getRateLimitKey(lastReq)].count = maxRequests(focus)

\* the table name a request supplies, and the allow-list it is held against
SuppliesTable ==
  \/ lastReq.ep = "admin-manage-data"
  \/ lastReq.ep = "admin-log-metrics" /\ lastReq.body.operation = "deleteMonthlyLog"
  \/ lastReq.ep = "admin-write"
     /\ lastReq.body.operation \in {"logMonthlyRevenue", "deleteMonthlyRevenue"}
SuppliedTable ==
  IF lastReq.ep = "admin-manage-data" THEN Str(lastReq.body.table)
  ELSE Get(lastReq.body.data, "table")
AllowList ==
  CASE lastReq.ep = "admin-manage-data" -> ALLOWED_TABLES
    [] lastReq.ep = "admin-log-metrics" -> MonthlyTables
    [] OTHER -> RevenueTables

\* C7: a request that supplies a table name has no query issued on a table
\* outside the endpoint's allow-list; once the body is read, a table name
\* outside the list is answered 400, and the store is unchanged.
C7_TableAllowList ==
  (Handled /\ SuppliesTable) =>
    /\ \A q \in lastResp.queries :
         q.table = "admin_password" \/ q.table \in AllowList
    /\ ~(IsString(SuppliedTable) /\ SuppliedTable.s \in AllowList) =>
         /\ db = prevDb
         /\ lastResp.queries \subseteq {Q("select", "admin_password")}
         /\ "parse" \in lastResp.passed => lastResp.status = 400

\* a table of the store that is not on the list was asked for and refused
C7_Witness ==
  /\ Handled /\ SuppliesTable
  /\ IsString(SuppliedTable)
  /\ SuppliedTable.s \in Tables \ AllowList
  /\ prevDb[SuppliedTable.s] # {}
  /\ "parse" \in lastResp.passed
  /\ lastResp.status = 400

\* the fields of a goal that are fixed at creation
ImmutableGoalFields == {"id", "quarter", "year", "metric_type"}

\* the last request was an update of a quarter goal, on any endpoint
GoalUpdate ==
  /\ Handled
  /\ lastReq.body.json
  /\ \/ /\ lastReq.ep = "admin-manage-data"
        /\ lastReq.body.operation = "update"
        /\ lastReq.body.table = "quarter_goal"
     \/ lastReq.ep = "admin-update-goal" /\ lastReq.body.operation = "update"
     \/ lastReq.ep = "admin-write" /\ lastReq.body.operation = "updateQuarterGoal"

\* the fields the update names
UpdatedFields ==
  CASE lastReq.ep = "admin-manage-data" -> Keys(lastReq.body.data)
    [] lastReq.ep = "admin-write" -> Keys(lastReq.body.updates)
    [] OTHER -> IF Get(lastReq.body.data, "updates").t = "obj"
                THEN Keys(lastReq.body.data["updates"].o) ELSE {}

\* C8: an update request leaves the id, quarter, year and metric_type of every
\* quarter goal as they were, and an update that names one of those fields is
\* rejected and leaves the store unchanged.
C8_GoalIdentityImmutable ==
  GoalUpdate =>
    /\ \A g \in prevDb["quarter_goal"] : \E h \in db["quarter_goal"] :
         \A f \in ImmutableGoalFields : h[f] = g[f]
    /\ UpdatedFields \cap ImmutableGoalFields # {} =>
         lastResp.status >= 400 /\ db = prevDb

\* client c had verified the admin password before its call i
SignedIn(i) ==
  \E k \in 1..(i - 1) :
    /\ cl.log[k].c = cl.log[i].c
    /\ cl.log[k].op = "verifyPassword" /\ cl.log[k].ok

\* the settled calls updateMetricOverride of two signed-in clients on one key
SameKeyWrites(i, j) ==
  /\ i < j
  /\ SignedIn(i) /\ SignedIn(j)
  /\ cl.log[i].op = "updateMetricOverride" /\ cl.log[j].op = "updateMetricOverride"
  /\ cl.log[i].c # cl.log[j].c
  /\ cl.log[i].company = cl.log[j].company
  /\ cl.log[i].metricKey = cl.log[j].metricKey
  /\ \A k \in 1..Len(cl.log) :
       cl.log[k].op = "deleteMetricOverride" => cl.log[k].metricKey # cl.log[i].metricKey

OverrideRows(company, metricKey) ==
  {r \in db["business_metrics_overrides"] :
     r["company"] = Str(company) /\ r["metric_key"] = Str(metricKey)}

\* C9: when two clients have each written an override for the same
\* (company, metric_key), in whatever order their calls interleaved, both
\* writes completed without error and the store holds exactly one row for the
\* key, with the value of one of the two writes.
C9_ConcurrentWritesBothComplete ==
  \A i, j \in 1..Len(cl.log) :
    SameKeyWrites(i, j) =>
      /\ cl.log[i].ok /\ cl.log[j].ok
      /\ Cardinality(OverrideRows(cl.log[i].company, cl.log[i].metricKey)) = 1
      /\ \A r \in OverrideRows(cl.log[i].company, cl.log[i].metricKey) :
           r["value"] \in {cl.log[i].value, cl.log[j].value}

\* the goals of the store that belong to the quarter and year of a call
GoalsOf(filters) ==
  {g \in db["quarter_goal"] :
     g["quarter"] = filters["quarter"] /\ g["year"] = filters["year"]}

\* C10: a listQuarterGoals(Q, Y) that returned has returned the goals of the
\* store whose quarter is Q and whose year is Y, all of them and no other.
C10_ListReturnsExactlyTheQuarter ==
  \A i \in 1..Len(cl.log) :
    (cl.log[i].op = "listQuarterGoals" /\ cl.log[i].ok) =>
      cl.log[i].result.rows = GoalsOf(cl.log[i].value.o)

\* a listing that returned two goals and left out goals of another quarter and
\* of another year
C10_Witness ==
  \E i \in 1..Len(cl.log) :
    /\ cl.log[i].op = "listQuarterGoals" /\ cl.log[i].ok
    /\ Cardinality(cl.log[i].result.rows) = 2
    /\ \E g \in db["quarter_goal"] :
         /\ g["quarter"] # cl.log[i].value.o["quarter"]
         /\ g["year"] = cl.log[i].value.o["year"]
    /\ \E g \in db["quarter_goal"] :
         /\ g["quarter"] = cl.log[i].value.o["quarter"]
         /\ g["year"] # cl.log[i].value.o["year"]


-----------------------------------------------------------------------------
(* The dashboard's goals *)

\* a percentage between 0 and 100
InRange(p) == p.is = "number" /\ 0 <= p.num /\ p.num <= 100 * p.den

\* C11: the progress percentage of every displayed goal is a number between 0
\* and 100, a value above the target and a target of 0 included, and the goal
\* is marked complete exactly when its current value reaches its target.
C11_ProgressWithinZeroAndHundred ==
  \A goal \in dash.quarterGoals :
    /\ InRange(progress(goal))
    /\ isComplete(goal) <=>
         Halves(goal["currentValue"]) >= Halves(goal["target_value"])

\* a displayed goal whose current value exceeds its target shows 100
C11_ClampedAboveTarget ==
  \E goal \in dash.quarterGoals :
    /\ Halves(goal["currentValue"]) > Halves(goal["target_value"])
    /\ Halves(goal["target_value"]) > 0
    /\ progress(goal) = [is |-> "number", num |-> 100, den |-> 1]

\* C16: once the metrics fetch and every goal fetch of the dashboard have
\* completed, each displayed goal of an auto-calculated type shows the metric
\* of the metrics loaded last, whatever the order the responses arrived in.
C16_GoalsShowLoadedMetrics ==
  (dash.mounted /\ dash.fetches = {}) =>
    \A goal \in dash.quarterGoals :
      AutoCalculated(goal) =>
        goal["currentValue"]
          = OrElse(Get(dash.metrics, GoalMetric(goal["metric_type"].s)), Num(0))

-----------------------------------------------------------------------------
(* The aggregated metrics *)

Businesses == {"elkPeak", "lifeOrganizer", "friendlyTech", "runtimePM"}

\* the monthly-log tables of a business
LogTables(business) == {SeriesTable(sk) : sk \in {k \in SeriesKeys : k[1] = business}}

\* the metrics that are sums over the monthly logs
LogSummed ==
  {<<"elkPeak", "totalRevenue">>, <<"friendlyTech", "totalRevenue">>,
   <<"runtimePM", "totalRevenue">>}
  \cup {<<"lifeOrganizer", k>> : k \in {"totalKDPRevenue", "totalNotionRevenue",
                                        "totalEtsyRevenue", "totalGumroadRevenue",
                                        "totalRevenue"}}

\* the last request was a read of the aggregated metrics, answered 200
ReadDone == lastReq.ep = "public-metrics" /\ lastResp.status = 200

\* the rows the queries of that read returned
ReadDb == IF lastReq.dbFails THEN EmptyDb ELSE db

NoLogs(business) == \A t \in LogTables(business) : ReadDb[t] = {}

OverridesOf(d, mk) ==
  {o \in d["business_metrics_overrides"] :
     o["company"] = Str(mk[1]) /\ o["metric_key"] = Str(mk[2])}

\* C12 as stated: with the monthly-log tables of a business empty, every
\* metric of that business in the response, unless overridden, is the number 0.
C12_EmptyLogsGiveZeroEverywhere ==
  ReadDone =>
    \A mk \in MetricKeys :
      (NoLogs(mk[1]) /\ OverridesOf(ReadDb, mk) = {}) =>
        lastResp.body.metrics[mk] = Num(0)

\* C12: with the monthly-log tables of a business empty, the read is answered
\* 200, every metric of that business is a number (never null or undefined),
\* and every metric that sums the monthly logs is the number 0 unless an
\* override row replaces it.
C12_EmptyLogsGiveNumbers ==
  (lastReq.ep = "public-metrics" /\ "store" \in lastResp.passed) =>
    /\ lastResp.status = 200
    /\ \A mk \in MetricKeys :
         NoLogs(mk[1]) =>
           /\ IsNumber(lastResp.body.metrics[mk])
           /\ (mk \in LogSummed /\ OverridesOf(ReadDb, mk) = {}) =>
                lastResp.body.metrics[mk] = Num(0)

\* a read of a store with clients and no monthly log of Elk Peak: the total
\* revenue is 0 and the recurring revenue is the clients' sum
C12_Witness ==
  /\ ReadDone /\ ~lastReq.dbFails
  /\ NoLogs("elkPeak") /\ db["elk_peak_clients"] # {}
  /\ lastResp.body.metrics[<<"elkPeak", "totalRevenue">>] = Num(0)
  /\ Halves(lastResp.body.metrics[<<"elkPeak", "monthlyRecurringRevenue">>]) > 0

\* the current MRR as claimed: the latest monthly log if there is one, else
\* the sum over the active rows
ClaimedMRR(logs, col, live, amount) ==
  IF logs # {} THEN LatestOf(logs, col) ELSE Sum(Active(live), amount)

\* C13: the current MRR of a business in the response, unless overridden, is
\* the MRR of the monthly-log row with the greatest (year, month) whenever a
\* row exists, and the sum over the active clients or subscriptions only when
\* none exists.
C13_CurrentMrrIsLatestLogElseActiveSum ==
  ReadDone =>
    /\ OverridesOf(ReadDb, <<"elkPeak", "monthlyRecurringRevenue">>) = {} =>
         lastResp.body.metrics[<<"elkPeak", "monthlyRecurringRevenue">>]
           = ClaimedMRR(ReadDb["elk_peak_monthly_mrr"], "mrr",
                        ReadDb["elk_peak_clients"], "monthly_revenue")
    /\ OverridesOf(ReadDb, <<"runtimePM", "monthlyRecurringRevenue">>) = {} =>
         lastResp.body.metrics[<<"runtimePM", "monthlyRecurringRevenue">>]
           = ClaimedMRR(ReadDb["runtime_pm_monthly_metrics"], "revenue",
                        ReadDb["runtime_pm_subscriptions"], "monthly_amount")

\* an override row on one of the keys the aggregator applies
Enumerated(o) ==
  \E mk \in MetricKeys : o["company"] = Str(mk[1]) /\ o["metric_key"] = Str(mk[2])

Extraneous(d) == {o \in d["business_metrics_overrides"] : ~Enumerated(o)}

\* the store without some of its override rows
Without(d, rows) == [d EXCEPT !["business_metrics_overrides"] = @ \ rows]

\* C14: override rows outside the enumerated keys change no field of the
\* response and add none: the response is the one of the store without them,
\* and its fields are the enumerated metrics and the monthly series.
C14_ExtraneousOverridesIgnored ==
  ReadDone =>
    /\ lastResp.body = MetricsBody(Without(ReadDb, Extraneous(ReadDb)))
    /\ DOMAIN lastResp.body.metrics = MetricKeys
    /\ DOMAIN lastResp.body.series = SeriesKeys

\* a read of a store that holds an override row of an unknown metric, of an
\* unknown company, or named after a monthly series
C14_Witness ==
  /\ ReadDone /\ ~lastReq.dbFails
  /\ \E o \in Extraneous(db) :
       o["metric_key"] \in {Str("staleKey"), Str("monthlyRevenue")}
       \/ o["company"] = Str("otherCo")

\* C15: an override row of an enumerated key changes that metric of that
\* business only: every other metric and every monthly series is what the
\* aggregator returns for the store without the row.
C15_OverrideChangesOneMetric ==
  ReadDone =>
    \A o \in ReadDb["business_metrics_overrides"] \ Extraneous(ReadDb) :
      /\ lastResp.body.series = Series(Without(ReadDb, {o}))
      /\ \A mk \in MetricKeys :
           IF o \in OverridesOf(ReadDb, mk)
           THEN lastResp.body.metrics[mk] = o["value"]
           ELSE lastResp.body.metrics[mk] = Metrics(Without(ReadDb, {o}))[mk]

\* a read of a store with an override of Elk Peak's total revenue: the
\* response carries it, and the total revenue of Runtime PM is the computed one
C15_Witness ==
  /\ ReadDone /\ ~lastReq.dbFails
  /\ \E o \in OverridesOf(db, <<"elkPeak", "totalRevenue">>) :
       /\ lastResp.body.metrics[<<"elkPeak", "totalRevenue">>] = o["value"]
       /\ o["value"] # Computed(db, <<"elkPeak", "totalRevenue">>)
  /\ OverridesOf(db, <<"runtimePM", "totalRevenue">>) = {}

-----------------------------------------------------------------------------
(* The contact form *)

\* the checks of a contact payload, field by field
NameOk(v) == IsString(v) /\ Length(Trim(v.s)) >= 1 /\ Length(v.s) <= 100
EmailOk(v) == IsString(v) /\ validateEmail(v.s)
MessageOk(v) == IsString(v) /\ Length(Trim(v.s)) >= 1 /\ Length(v.s) <= 1000
CompanyOk(v) ==
  v.t \in {"undef", "null"} \/ (IsString(v) /\ Length(v.s) <= 100)

PassesChecks(data) ==
  /\ IsObj(data)
  /\ NameOk(Get(data, "name")) /\ EmailOk(Get(data, "email"))
  /\ MessageOk(Get(data, "message")) /\ CompanyOk(Get(data, "company"))

\* the last request was a contact form of an admitted caller, parsed
ContactAdmitted ==
  /\ lastReq.ep = "contact-submit"
  /\ {"origin", "rate"} \subseteq lastResp.passed
  /\ lastReq.body.json

Submissions(d) == d["contact_submissions"]

\* C17: contact-submit answers 400 and inserts nothing when the message is
\* longer than 1000 characters or the name, the email or the company fails
\* its check; a payload that passes every check, from an admitted caller of a
\* configured service whose store accepts the insert, inserts exactly one
\* submission and is answered 200 with the id generated for it.
C17_ContactValidatedThenStoredOnce ==
  ContactAdmitted =>
    IF PassesChecks(lastReq.body.data)
    THEN (configOk /\ ~lastReq.dbFails) =>
           /\ lastResp.status = 200
           /\ \E row \in Submissions(db) \ Submissions(prevDb) :
                /\ Submissions(db) = Submissions(prevDb) \cup {row}
                /\ lastResp.body.id = row["id"]
                /\ \A old \in Submissions(prevDb) : old["id"] # row["id"]
    ELSE lastResp.status = 400 /\ db = prevDb

\* a message of 999 characters was stored and answered with its id
C17_Witness ==
  /\ ContactAdmitted
  /\ Get(lastReq.body.data, "message") = Str("L999")
  /\ lastResp.status = 200
  /\ \E row \in Submissions(db) \ Submissions(prevDb) : lastResp.body.id = row["id"]

\* the statuses a stored submission may have
SubmissionStatuses == {"new", "read", "replied", "archived"}

\* the last request was the operation op of admin-contacts, past the guards
ContactsOp(op) ==
  /\ lastReq.ep = "admin-contacts"
  /\ "cred" \in lastResp.passed
  /\ lastReq.body.json /\ lastReq.body.operation = op

\* the submissions differ from the previous ones in the column col at most
OnlyChanged(col) ==
  /\ \A t \in Tables \ {"contact_submissions"} : db[t] = prevDb[t]
  /\ \A r \in Submissions(db) :
       \E old \in Submissions(prevDb) : SameOn(DOMAIN r \ {col}, r, old)
  /\ Cardinality(Submissions(db)) = Cardinality(Submissions(prevDb))

\* C18: every stored submission has a status among new, read, replied and
\* archived: it is created with new, updateStatus with another value is
\* answered 400 and changes nothing, updateStatus changes the status only and
\* addNotes the notes only.
C18_SubmissionStatusStaysValid ==
  /\ \A r \in Submissions(db) :
       IsString(r["status"]) /\ r["status"].s \in SubmissionStatuses
  /\ lastReq.ep = "contact-submit" =>
       \A r \in Submissions(db) \ Submissions(prevDb) : r["status"] = Str("new")
  /\ (/\ ContactsOp("updateStatus")
      /\ IsObj(lastReq.body.data)
      /\ Get(lastReq.body.data, "status") \notin {Str(st) : st \in SubmissionStatuses})
     => lastResp.status = 400 /\ db = prevDb
  /\ ContactsOp("updateStatus") => OnlyChanged("status")
  /\ ContactsOp("addNotes") => OnlyChanged("notes")

\* a submission created with status new was set to read by updateStatus, its
\* other fields unchanged
C18_Witness ==
  /\ ContactsOp("updateStatus") /\ lastResp.status = 200
  /\ \E r \in Submissions(db) :
       /\ r["status"] = Str("read")
       /\ \E old \in Submissions(prevDb) :
            old["id"] = r["id"] /\ old["status"] = Str("new")

-----------------------------------------------------------------------------
(* The credential table *)

\* a response body that carries a password or a stored hash, at the top or
\* in one of the rows it returns
Discloses(body) ==
  \/ DOMAIN body \cap {"password", "password_hash"} # {}
  \/ /\ "rows" \in DOMAIN body
     /\ \E r \in body.rows : DOMAIN r \cap {"password", "password_hash"} # {}

\* C19: no request issues an insert, an update or a delete on admin_password,
\* a request that names it as its table is refused with the store unchanged,
\* the table holds what was provisioned, and no response body carries a
\* stored password or hash.
C19_CredentialTableReadOnly ==
  Handled =>
    /\ \A q \in lastResp.queries : q.table = "admin_password" => q.op = "select"
    /\ (SuppliesTable /\ SuppliedTable = Str("admin_password")) =>
         /\ db = prevDb
         /\ \A q \in lastResp.queries : q = Q("select", "admin_password")
         /\ "parse" \in lastResp.passed => lastResp.status = 400
    /\ \E dep \in Deployments : creds = dep.creds
    /\ ~Discloses(lastResp.body)

\* a password was verified against the stored hashes and the answer names the
\* administrator without any hash
C19_Witness ==
  /\ lastReq.ep = "auth-verify" /\ lastResp.status = 200
  /\ Q("select", "admin_password") \in lastResp.queries
  /\ lastResp.body.valid /\ DOMAIN lastResp.body = {"valid", "isAdmin", "name"}

-----------------------------------------------------------------------------
(* Store failures *)

\* the last request had a query on a table of the store fail
StoreFailed ==
  /\ Handled
  /\ \E q \in lastResp.queries : q.table # "admin_password"
  /\ lastReq.dbFails \/ "store" \notin lastResp.passed

\* the text of the store's error, as a handler may copy it
ErrorText == "error.message"

\* C20: a request whose store operation fails is answered 500 with a body
\* that holds a fixed message and nothing else; the text of the store's error
\* is no part of it.
C20_StoreFailureAnsweredGenerically ==
  StoreFailed =>
    /\ lastResp.status = 500
    /\ DOMAIN lastResp.body = {"error"}
    /\ lastResp.body.error # ErrorText

-----------------------------------------------------------------------------
(* The credential lookup of auth-verify *)

\* C21: an auth-verify request whose credential lookup fails is answered with
\* a server error, and that response differs from the one an invalid password
\* gets.
C21_LookupFailureIsServerError ==
  \A a \in authLog :
    (Submitted(a) /\ a.lookupFails) =>
      /\ a.status >= 500
      /\ a.body # InvalidPassword
      /\ \A b \in authLog :
           (Submitted(b) /\ ~b.lookupFails /\ ~Matching(b.password)) =>
             (a.status # b.status \/ a.body # b.body)

-----------------------------------------------------------------------------
(* Request methods *)

\* the endpoints that can write to the store
WriteCapable == WriteEndpoints \cup {"admin-contacts", "contact-submit"}

\* C22: a request to a write-capable endpoint whose method is neither POST nor
\* OPTIONS is rejected, and no store operation is executed for it.
C22_OtherMethodsRejected ==
  (lastReq.ep \in WriteCapable /\ lastReq.method \notin {"POST", "OPTIONS"}) =>
    /\ lastResp.status >= 400
    /\ db = prevDb
    /\ \A q \in lastResp.queries : q.table = "admin_password"

\* the caller of the last request has used up its quota in the current window
Exhausted ==
  /\ lastReq.ep \in RateLimited
  /\ getRateLimitKey(lastReq) \in DOMAIN rateLimits[lastReq.ep]
  /\ rateLimits[lastReq.ep][getRateLimitKey(lastReq)].count >= maxRequests(lastReq.ep)
  /\ now <= rateLimits[lastReq.ep][getRateLimitKey(lastReq)].resetTime

AdmittedInWindow(ep) == {rateLimits[ep][k].count : k \in DOMAIN rateLimits[ep]}

\* endpoint a admits requests at a lower rate than endpoint b
LowerRate(a, b) == maxRequests(a) * windowMs(b) < maxRequests(b) * windowMs(a)

AdminEndpoints == {"admin-manage-data", "admin-update-goal", "admin-log-metrics",
                   "admin-contacts"}

\* C24: per caller and window, contact-submit admits at most nine submissions
\* in its one-hour window and at a lower rate than every other endpoint;
\* auth-verify admits at most nine attempts in a window of several minutes
\* and at a lower rate than every admin endpoint.
C24_SingleDigitQuotas ==
  /\ \A n \in AdmittedInWindow("contact-submit") : n <= 9
  /\ windowMs("contact-submit") = 3600000
  /\ \A ep \in RateLimited \ {"contact-submit"} : LowerRate("contact-submit", ep)
  /\ \A n \in AdmittedInWindow("auth-verify") : n <= 9
  /\ windowMs("auth-verify") >= 2 * 60000
  /\ \A ep \in AdminEndpoints : LowerRate("auth-verify", ep)

(* The field allow-list of admin-manage-data *)
\* the last request is a create or update of admin-manage-data whose data
\* object has a field outside the table's permitted set
ForeignField ==
  /\ lastReq.ep = "admin-manage-data" /\ lastReq.method # "OPTIONS"
  /\ lastReq.body.json
  /\ lastReq.body.operation \in {"create", "update"}
  /\ IsObj(lastReq.body.data)
  /\ ~(Keys(lastReq.body.data) \subseteq TABLE_ALLOWED_FIELDS(lastReq.body.table))

IdsOf(rows) == {r["id"] : r \in rows}
\* the id the store generated for the last insert, if it has generated one
Generated == {Uuid(n) : n \in {m \in {nextId - 1} : m >= 1}}

\* C25: a create or update of admin-manage-data whose data has a field
\* outside the permitted set is refused and leaves the store as it was, with
\* 400 once the request is past the guards; and every row the endpoint adds
\* or changes keeps an id the table already had or gets the id the store
\* generated, never one the request chose.
C25_ForeignFieldsRejected ==
  /\ ForeignField =>
       /\ lastResp.status >= 400
       /\ "cred" \in lastResp.passed => lastResp.status = 400
       /\ db = prevDb
  /\ lastReq.ep = "admin-manage-data" =>
       \A t \in DOMAIN db :
         \A r \in db[t] \ prevDb[t] :
           r["id"] \in IdsOf(prevDb[t]) \cup Generated

\* an authenticated create carrying id, and one carrying created_at, refused
C25_Witness ==
  /\ ForeignField /\ "cred" \in lastResp.passed
  /\ lastReq.body.operation = "create"
  /\ "id" \in Keys(lastReq.body.data)
  /\ lastResp.status = 400 /\ lastResp.body = Err("Invalid fields")

(* The validation of admin-log-metrics *)
\* the last request is an authenticated admin-log-metrics request with a
\* valid operation
LogRequest ==
  /\ lastReq.ep = "admin-log-metrics" /\ "cred" \in lastResp.passed
  /\ lastReq.body.json
  /\ lastReq.body.operation \in validOperations

YearOk(y) == IsInteger(y) /\ y.n >= 2020 /\ y.n <= 2100
MonthOk(m) == IsInteger(m) /\ m.n >= 1 /\ m.n <= 12
\* a logged figure that is negative or not a number
BadFigure(operation, data) ==
  /\ operation # "deleteMonthlyLog"
  /\ \E f \in Figures(LogTable(operation)) :
       ~IsNumber(Get(data, f)) \/ Get(data, f).n < 0

\* its data is present but has a bad year, month or figure
BadLogData ==
  /\ IsObj(lastReq.body.data)
  /\ \/ ~YearOk(Get(lastReq.body.data, "year"))
     \/ ~MonthOk(Get(lastReq.body.data, "month"))
     \/ BadFigure(lastReq.body.operation, lastReq.body.data)

Refused400 ==
  /\ lastResp.status = 400
  /\ db = prevDb
  /\ \A q \in lastResp.queries : q.table = "admin_password"

\* every monthly row has a year in 2020..2100, a month in 1..12 and no
\* negative figure
MonthlyRowsValid ==
  \A t \in MonthlyTables :
    \A r \in db[t] :
      /\ YearOk(r["year"]) /\ MonthOk(r["month"])
      /\ \A f \in Figures(t) : IsNumber(r[f]) /\ r[f].n >= 0

\* C26: an admin-log-metrics request with a valid operation whose data is
\* missing, or has a bad year, month or figure, is answered 400 and writes
\* nothing, and every monthly row has a valid year and month and no negative
\* figure.
C26_BadLogsAnswered400 ==
  /\ (LogRequest /\ (~IsObj(lastReq.body.data) \/ BadLogData)) => Refused400
  /\ MonthlyRowsValid

\* the same for requests that carry a data object
C26_PresentDataValidated ==
  /\ (LogRequest /\ BadLogData) => Refused400
  /\ MonthlyRowsValid

(* The end of a rate-limit window *)
\* the keys under which the callers of the observed limiter are counted
CallerKeys == {getRateLimitKey(req) : req \in RateRequests("contact-submit")}

\* a request under key k would be rejected now
Blocked(k) ==
  /\ k \in DOMAIN rateLimits[focus]
  /\ rateLimits[focus][k].count >= maxRequests(focus)
  /\ now <= rateLimits[focus][k].resetTime

\* a request reaches the limiter after the window of its caller has ended
AfterReset ==
  /\ now' = now /\ lastReq'.ep = focus
  /\ "rate" \in lastResp'.passed \/ lastResp'.status = 429
  /\ getRateLimitKey(lastReq') \in DOMAIN rateLimits[focus]
  /\ now > rateLimits[focus][getRateLimitKey(lastReq')].resetTime

NewWindow ==
  /\ lastResp'.status # 429
  /\ rateLimits'[focus][getRateLimitKey(lastReq')] =
       [count |-> 1, resetTime |-> now + windowMs(focus)]

\* C27: a request made after the reset time of its caller's window is
\* admitted and opens a new window with count 1, also when the caller had
\* used up the old window; and, time advancing, a caller whose requests are
\* being rejected does not stay so for ever.
C27_RejectedCallerAdmittedAgain ==
  /\ [][AfterReset => NewWindow]_vars
  /\ \A k \in CallerKeys : Blocked(k) ~> ~Blocked(k)

\* a caller that had used up its window has been admitted by its first
\* request after the reset time, which opened a new window
C27_Witness ==
  /\ lastReq.ep = focus /\ "rate" \in lastResp.passed
  /\ getRateLimitKey(lastReq) \in DOMAIN prevRl[focus]
  /\ prevRl[focus][getRateLimitKey(lastReq)].count >= maxRequests(focus)
  /\ rateLimits[focus][getRateLimitKey(lastReq)].count = 1
  /\ rateLimits[focus][getRateLimitKey(lastReq)].resetTime >
       prevRl[focus][getRateLimitKey(lastReq)].resetTime + windowMs(focus)

(* Rejected requests and the counter *)
\* C28: a request answered 429 leaves the entry of its caller's key as it
\* was, count and reset time, and no count of any limiter exceeds the
\* limiter's maxRequests.
C28_RejectionLeavesCounter ==
  /\ lastResp.status = 429 =>
       /\ getRateLimitKey(lastReq) \in DOMAIN prevRl[lastReq.ep]
       /\ rateLimits[lastReq.ep][getRateLimitKey(lastReq)] =
            prevRl[lastReq.ep][getRateLimitKey(lastReq)]
  /\ \A ep \in RateLimited :
       \A k \in DOMAIN rateLimits[ep] : rateLimits[ep][k].count <= maxRequests(ep)

\* a request rejected some time after the window was opened, the entry still
\* at maxRequests and at the reset time set when the window was opened
C28_Witness ==
  /\ lastResp.status = 429
  /\ now > 0
  /\ rateLimits[lastReq.ep][getRateLimitKey(lastReq)] =
       [count |-> maxRequests(lastReq.ep), resetTime |-> windowMs(lastReq.ep)]

(* The keys of a rate-limit map *)
\* the last request reached the limiter
Limited == lastReq.ep = focus /\ ("rate" \in lastResp.passed \/ lastResp.status = 429)

\* the caller address of the last request as its headers give it
Address ==
  IF lastReq.xff # "" THEN lastReq.xff
  ELSE IF lastReq.realip # "" THEN lastReq.realip ELSE "unknown"

\* the entry of key k tells that a request under k is rejected
Spent(m, k) ==
  k \in DOMAIN m /\ m[k].count >= maxRequests(focus) /\ now <= m[k].resetTime

\* the last request was counted under key k and judged by the entry of k
\* alone; every other entry is as it was
CountedUnder(k) ==
  /\ k \in DOMAIN rateLimits[focus]
  /\ lastResp.status = 429 <=> Spent(prevRl[focus], k)
  /\ "rate" \in lastResp.passed =>
       rateLimits[focus][k].count =
         (IF k \in DOMAIN prevRl[focus] THEN prevRl[focus][k].count ELSE 0) + 1
  /\ \A j \in DOMAIN rateLimits[focus] \ {k} :
       j \in DOMAIN prevRl[focus] /\ rateLimits[focus][j] = prevRl[focus][j]

\* C29 as stated: a request is counted under one key, judged by that key's
\* entry alone, with every other entry left as it was, and the requests
\* without x-forwarded-for and x-real-ip are all counted under one shared
\* key, whose count is the number of such requests admitted in the window.
C29_UnknownKeyShared ==
  /\ Limited => \E k \in DOMAIN rateLimits[focus] : CountedUnder(k)
  /\ (Limited /\ Address = "unknown" /\ "rate" \in lastResp.passed) =>
       \E k \in DOMAIN rateLimits[focus] :
         /\ CountedUnder(k)
         /\ rateLimits[focus][k].count = admitted.byIp["unknown"].count

\* C29: a request is counted under one key, judged by that key's entry alone,
\* with every other entry left as it was; the key is the caller address,
\* "unknown" for every request without x-forwarded-for and x-real-ip, except
\* on public-metrics, where it is the address together with the user agent,
\* so that requests without an address share a key only if they share the
\* user agent.
C29_KeysIndependent ==
  Limited =>
    IF focus = "public-metrics"
    THEN CountedUnder(<<Address, lastReq.ua>>)
    ELSE CountedUnder(<<Address>>)

\* a caller without an address is rejected because of the requests of
\* another such caller, while the key of the caller with an address is not
\* spent; and a caller without an address is admitted while the key of the
\* caller with an address is spent
C29_Witness ==
  /\ Limited /\ focus # "public-metrics"
  /\ lastReq.xff = "" /\ lastReq.realip = "" /\ lastReq.ua = "ua2"
  /\ lastResp.status = 429
  /\ admitted.byKey[<<"unknown">>].count = maxRequests(focus)
  /\ ~Spent(rateLimits[focus], <<"ip1">>)

C29_AdmittedBesideSpentKey ==
  /\ Limited /\ lastReq.xff = "" /\ "rate" \in lastResp.passed
  /\ Spent(rateLimits[focus], getRateLimitKey([lastReq EXCEPT !.xff = "ip1"]))

(* The password held by the api-secure client *)
\* the password client c holds according to its calls so far: that of its
\* latest verifyPassword that returned valid, unless clearAdminPassword came
\* after it
RECURSIVE Held(_, _)
Held(c, log) ==
  IF log = <<>> THEN ""
  ELSE LET e == log[Len(log)]
       IN  IF e.c = c /\ e.op = "clearAdminPassword" THEN ""
           ELSE IF e.c = c /\ e.op = "verifyPassword" /\ e.ok /\ e.result.valid
           THEN e.value.s
           ELSE Held(c, SubSeq(log, 1, Len(log) - 1))

AdminCalls == {"getMetrics", "listQuarterGoals"}

\* client c settles an admin call in this step
AdminCall(c) ==
  /\ Len(cl'.log) = Len(cl.log) + 1
  /\ cl'.log[Len(cl'.log)].c = c
  /\ cl'.log[Len(cl'.log)].op \in AdminCalls

\* the call failed in the client and nothing reached an edge function
FailedLocally ==
  /\ ~cl'.log[Len(cl'.log)].ok
  /\ cl'.log[Len(cl'.log)].result = Err("Admin authentication required")
  /\ UNCHANGED <<db, rateLimits, lastReq, lastResp, prevRl, prevDb, authLog>>

\* C30: the client holds exactly the password of its latest verifyPassword
\* that returned valid and was not followed by clearAdminPassword (a failed
\* verifyPassword changes nothing); an admin call made while a password is
\* held sends it in x-admin-password, and one made while none is held fails
\* in the client with "Admin authentication required" and sends nothing.
C30_AdminCallsCarryVerifiedPassword ==
  [][/\ \A c \in Clients : adminPassword'[c] = Held(c, cl'.log)
     /\ \A c \in Clients :
          AdminCall(c) =>
            IF Held(c, cl.log) = "" THEN FailedLocally
            ELSE /\ lastReq'.pw = Held(c, cl.log)
                 /\ lastReq'.ep \in {"public-metrics", "admin-manage-data"}
                 /\ prevRl' = rateLimits]_vars

\* a client verified, cleared, was refused locally, failed a verification,
\* verified again and had its admin call answered
C30_Witness ==
  /\ \E c \in Clients :
       /\ Len(cl.log) >= 4
       /\ \A i \in 1..4 : cl.log[i].c = c
       /\ cl.log[1].op = "verifyPassword" /\ cl.log[1].ok
       /\ cl.log[2].op = "clearAdminPassword"
       /\ cl.log[3].op \in AdminCalls
       /\ cl.log[3].result = Err("Admin authentication required")
       /\ cl.log[4].op = "verifyPassword" /\ ~cl.log[4].ok
       /\ adminPassword[c] = ""

\* a failed verifyPassword after a valid one leaves the password held, and
\* the next admin call is answered
C30_KeptAfterFailedVerify ==
  \E c \in Clients :
    /\ Len(cl.log) >= 3
    /\ \A i \in 1..3 : cl.log[i].c = c
    /\ cl.log[1].op = "verifyPassword" /\ cl.log[1].ok
    /\ cl.log[2].op = "verifyPassword" /\ ~cl.log[2].ok
    /\ cl.log[3].op \in AdminCalls /\ cl.log[3].ok
    /\ adminPassword[c] = "pw1"
====
